---- MODULE Spec2Model ----
(***************************************************************************)
(* Model of IncrementalTelegramDownloader.download_messages_incremental    *)
(* (telegram-chat-downloader/telegram_downloader_incremental_v2.py):       *)
(* the two-phase download of one job, run repeatedly against one progress  *)
(* file.  A run is one process: it loads the progress file, possibly runs  *)
(* the Phase 1 batch loop, finalizes the sinks, saves, and possibly runs   *)
(* the Phase 2 media loop.                                                 *)
(***************************************************************************)
EXTENDS Integers, Sequences, FiniteSets, TLC

\* ---------------------------------------------------------------- bounds
SmallRecords == 3     \* records held by a small remote source
MaxRecords == 27      \* records held by a large remote source
MaxRuns    == 2       \* invocations of the downloader against the job
MaxFloods  == 1       \* FloodWaitError signals in Phase 1 of a job
SmallBatch == 2       \* a batch_size below the save period
LargeBatch == 26      \* a batch_size above the save period
SmallCap   == 2       \* a max_messages value (0 stands for None)
IdGap      == 10      \* identifiers missing at the old end of the source
V1MaxTime  == 3       \* seconds the clock of the first generation runs
V1MaxRuns  == 2       \* invocations of the first generation
SelMaxTime == 3       \* ticks the clock of the job selection runs
SelMaxRuns == 3       \* invocations that select a job
TicksPerSecond == 2   \* ticks of the clock of the job selection in a second

\* ------------------------------------------------------ program constants
SavePeriod     == 25  \* "if batch_count % 25 == 0"
LowIdThreshold == 10  \* "progress.get('last_message_id', 0) <= 10"

\* tokens of the output files; a message record is written as its identifier
JSON_OPEN   == -1     \* '[\n'
JSON_SEP    == -2     \* ',\n'
JSON_CLOSE  == -3     \* '\n]'
HTML_HEADER == -4     \* start_html_file
HTML_FOOTER == -5     \* html_footer

Unbound == -1         \* a local variable that has not been assigned yet
NoFile  == [exists |-> FALSE]

VARIABLES
    source,                \* the remote chat: [lo, n, media]
    cfg,                   \* arguments of the current run
    pc,                    \* position of the current run
    runs,                  \* runs started so far
    floods,                \* FloodWaitError signals raised in Phase 1 of the job
    loaded,                \* what load_progress returned at the start of this run
    progress,              \* the local dict `progress`
    progress_file,         \* <base_name>_progress.json on disk
    messages_with_media,   \* self.messages_with_media
    text_download_complete,
    total_downloaded, offset_id, is_first, batch_count, current_batch_size,
    exit_reason,           \* how the Phase 1 loop was left
    csv_file, json_file, html_file,   \* the handles: "none", "open", "closed", "failed"
    csv_writer,            \* the field names of the DictWriter, << >> before it exists
    csv_data, json_data, html_data,   \* the files on disk
    media_dir,             \* the names of the files in media/
    media_to_download, media_i, media_downloaded,
    download_calls,        \* identifiers message.download_media was called for, this run
    last_save,             \* the save_progress call made last in this run
    exhausted_seen,        \* some run of the job has observed a zero-record batch
    media_failed,          \* identifiers whose last download attempt raised an error
    prompt,                \* the answer at the media prompt of this run: "none", "y", "n"
    declined,              \* the inventory the previous run declined, until the prompt
    v1,                    \* the first-generation downloader: its run and its files
    sel,                   \* job selection at entry: the clock, the jobs of the
                           \* output directory, what the operator saw and typed
    page                   \* the HTML writer: the record it was given and the
                           \* text it wrote for it

vars == << source, cfg, pc, runs, floods, loaded, progress, progress_file,
           messages_with_media, text_download_complete, total_downloaded,
           offset_id, is_first, batch_count, current_batch_size, exit_reason,
           csv_file, json_file, html_file, csv_writer, csv_data, json_data,
           html_data, media_dir, media_to_download, media_i, media_downloaded,
           download_calls, last_save, exhausted_seen, media_failed, prompt,
           declined, v1, sel, page >>

\* ------------------------------------------------------------- helpers
Min(a, b) == IF a < b THEN a ELSE b

Range(s) == { s[i] : i \in 1..Len(s) }

\* the identifiers the remote source holds, lo+1 .. lo+n
SourceIds == (source.lo + 1) .. (source.lo + source.n)

\* client.iter_messages(channel, offset_id=o, reverse=False): the identifiers
\* below o (all of them when o = 0), newest first
Older(o) == IF o = 0 THEN SourceIds ELSE { i \in SourceIds : i < o }

NextMessage(o) == CHOOSE i \in Older(o) : \A j \in Older(o) : j <= i

\* ------------------------------------------------- decimal numerals
DigitChars == << "0", "1", "2", "3", "4", "5", "6", "7", "8", "9" >>

\* str(n) for n >= 0
RECURSIVE Dec(_)
Dec(n) ==
    IF n < 10 THEN << DigitChars[n + 1] >>
    ELSE Append(Dec(n \div 10), DigitChars[(n % 10) + 1])

IsDigit(c) == \E i \in 1..10 : DigitChars[i] = c

\* the value of a string of decimal digits
RECURSIVE digits_value(_)
digits_value(s) ==
    IF s = << >> THEN 0
    ELSE 10 * digits_value(SubSeq(s, 1, Len(s) - 1))
         + (CHOOSE v \in 0..9 : DigitChars[v + 1] = s[Len(s)])

\* ------------------------------------------------------ Progress Store
ZeroRecord ==
    [ last_message_id |-> 0, total_downloaded |-> 0,
      media_downloaded |-> FALSE, text_complete |-> FALSE ]

\* The text of the progress file is a sequence of JSON tokens: braces,
\* brackets, commas, colons, key names, true/false, and the decimal digits of
\* the numbers.
json_bool(b) == IF b THEN << "true" >> ELSE << "false" >>

RECURSIVE json_items(_)
json_items(s) ==
    IF s = << >> THEN << >>
    ELSE IF Len(s) = 1 THEN Dec(s[1])
    ELSE Dec(Head(s)) \o << "," >> \o json_items(Tail(s))

json_list(s) == << "[" >> \o json_items(s) \o << "]" >>

json_member(key, value) == << key, ":" >> \o value

\* json.dump(progress, f): the keys in the order the dict holds them.  Every
\* dict the function builds or loads has the first four keys in this order;
\* text_complete is a key only once line 716 has set it, and comes last.
json_dump(p, inventory) ==
    << "{" >>
    \o json_member("last_message_id", Dec(p.last_message_id)) \o << "," >>
    \o json_member("total_downloaded", Dec(p.total_downloaded)) \o << "," >>
    \o json_member("media_downloaded", json_bool(p.media_downloaded)) \o << "," >>
    \o json_member("messages_with_media", json_list(inventory))
    \o ( IF p.text_complete
         THEN << "," >> \o json_member("text_complete", json_bool(TRUE))
         ELSE << >> )
    \o << "}" >>

\* json.load(f) succeeds: the text is a whole object.  The texts that occur
\* are the texts json.dump writes and their prefixes, and the closing brace
\* is the last token json.dump writes.
json_valid(text) ==
    text # << >> /\ Head(text) = "{" /\ text[Len(text)] = "}"

json_has(text, key) == \E i \in 1..Len(text) : text[i] = key

\* the position of the first token of the value stored under key
json_value_at(text, key) == (CHOOSE i \in 1..Len(text) : text[i] = key) + 2

\* the digits of the number that starts at position i
json_number(text, i) ==
    LET digits[k \in 1..(Len(text) + 1)] ==
            IF k > Len(text) \/ ~IsDigit(text[k]) THEN << >>
            ELSE << text[k] >> \o digits[k + 1]
    IN  digits[i]

\* the list whose opening bracket, separator or next element is at position i
json_array(text, i) ==
    LET items[k \in 1..(Len(text) + 1)] ==
            IF k > Len(text) \/ text[k] = "]" THEN << >>
            ELSE IF text[k] \in {"[", ","} THEN items[k + 1]
            ELSE LET n == json_number(text, k)
                 IN  << digits_value(n) >> \o items[k + Len(n)]
    IN  items[i]

\* data.get(key, default) on the dict json.load returns
json_get_int(text, key, default) ==
    IF json_has(text, key)
    THEN digits_value(json_number(text, json_value_at(text, key)))
    ELSE default

json_get_bool(text, key, default) ==
    IF json_has(text, key) THEN text[json_value_at(text, key)] = "true"
    ELSE default

json_get_list(text, key, default) ==
    IF json_has(text, key) THEN json_array(text, json_value_at(text, key))
    ELSE default

\* the file after open(filepath, 'w') and before json.dump has written all
\* of the record: empty, or cut right after the opening brace
TornFiles == { [exists |-> TRUE, text |-> t] : t \in { << >>, << "{" >> } }

\* json.load(f) returns a record
IsRecord(file) == file.exists /\ json_valid(file.text)

\* load_progress: the record of the file, or the zero record
load_progress(file) ==
    IF file.exists
    THEN [ last_message_id  |-> json_get_int(file.text, "last_message_id", 0),
           total_downloaded |-> json_get_int(file.text, "total_downloaded", 0),
           media_downloaded |-> json_get_bool(file.text, "media_downloaded", FALSE),
           text_complete    |-> json_get_bool(file.text, "text_complete", FALSE) ]
    ELSE ZeroRecord

\* a faulty variant of load_inventory: the list of the file is not taken over
load_inventory_keep(file, current) == current

\* a faulty variant of save_progress: line 177 is left out and an empty
\* list is written
save_progress_stale(p, inventory) ==
    [exists |-> TRUE, text |-> json_dump(p, << >>)]

\* load_progress also replaces self.messages_with_media when the file exists
load_inventory(file, current) ==
    IF file.exists
    THEN json_get_list(file.text, "messages_with_media", << >>)
    ELSE current

\* save_progress: the whole dict, with the current inventory, replaces the file
save_progress(p, inventory) ==
    [ exists |-> TRUE, text |-> json_dump(p, inventory) ]

\* a faulty variant of Snapshot: the count of this run is stored instead of
\* the count of the job (used to show that C7 depends on the stored count)
SnapshotRunCount(o, t) ==
    [ last_message_id |-> o,
      total_downloaded |-> t - loaded.total_downloaded,
      media_downloaded |-> FALSE, text_complete |-> FALSE ]

\* the dict built at the periodic and at the per-batch save
Snapshot(o, t) ==
    [ last_message_id |-> o, total_downloaded |-> t,
      media_downloaded |-> FALSE, text_complete |-> FALSE ]

\* --------------------------------------------------- Media Inventory
\* a faulty variant of track_media: the identifier is appended without the
\* membership test
track_media_always(inventory, id) ==
    IF id \in source.media THEN Append(inventory, id) ELSE inventory

\* _parse_message(track_media=True): append the identifier if it is new
track_media(inventory, id) ==
    IF id \in source.media /\ id \notin Range(inventory)
    THEN Append(inventory, id)
    ELSE inventory

\* ------------------------------------------------------------- sinks
\* a faulty variant of WantsHtml: "both" is taken to mean every sink
WantsHtmlBoth(fmt) == fmt \in {"html", "both", "all"}

WantsCsv(fmt)  == fmt \in {"csv", "both", "all"}
WantsJson(fmt) == fmt \in {"json", "both", "all"}
WantsHtml(fmt) == fmt \in {"html", "all"}

\* write_message_incremental, JSON part
json_write(data, id, first) ==
    IF first THEN Append(data, id) ELSE Append(Append(data, JSON_SEP), id)

\* _parse_message, lines 197-203: message.sender is a User, a Channel or a
\* Chat, so the record gets the key sender_name
HasSender(id) == id \in source.senders

\* the keys of msg_dict in insertion order; of the eleven keys every record
\* has, the first and the last are followed
message_keys(id) ==
    IF HasSender(id) THEN << "id", "has_media", "sender_name" >>
    ELSE << "id", "has_media" >>

\* msg_dict[key] as the csv module writes it
message_value(id, key) ==
    IF key = "id" THEN id
    ELSE IF key = "has_media"
         THEN (IF id \in source.media THEN "True" ELSE "False")
    ELSE "s"

\* a faulty variant of dict_row: the values of the keys that are not field
\* names are written after the cells of the field names
dict_row_extras(fieldnames, id) ==
    [ k \in 1..Len(fieldnames) |->
        IF fieldnames[k] \in Range(message_keys(id))
        THEN message_value(id, fieldnames[k]) ELSE "" ]
    \o SelectSeq([ k \in 1..Len(message_keys(id)) |->
                     IF message_keys(id)[k] \in Range(fieldnames)
                     THEN "" ELSE message_value(id, message_keys(id)[k]) ],
                 LAMBDA c : c # "")

\* DictWriter.writerow with extrasaction='ignore': one cell per field name,
\* empty for a field name the record lacks; keys that are not field names
\* are passed over
dict_row(fieldnames, id) ==
    [ k \in 1..Len(fieldnames) |->
        IF fieldnames[k] \in Range(message_keys(id))
        THEN message_value(id, fieldnames[k]) ELSE "" ]

\* a faulty variant of csv_write: every record writes a header row of its
\* own keys before its row
csv_write_header_each(data, writer, id) ==
    Append(Append(data, message_keys(id)),
           dict_row(IF writer = << >> THEN message_keys(id) ELSE writer, id))

\* write_message_incremental, CSV part: the first record of the run fixes the
\* field names and writes the header row; every record writes one row
csv_write(data, writer, id) ==
    IF writer = << >>
    THEN Append(Append(data, message_keys(id)), dict_row(message_keys(id), id))
    ELSE Append(data, dict_row(writer, id))

\* ------------------------------------------------------------- Init
\* the HTML writer before it is given a record
PageInit == [ written |-> FALSE, msg |-> << >>, out |-> << >> ]

\* job selection before the first invocation: an empty output directory
SelInit ==
    [ pc |-> "idle", now |-> 0, runs |-> 0, jobs |-> {}, listing |-> << >>,
      choice |-> << >>, base_filename |-> 0, loaded |-> ZeroRecord,
      inventory |-> << >> ]

\* the first-generation downloader before its first invocation
V1Init ==
    [ pc |-> "idle", now |-> 0, runs |-> 0, floods |-> 0, stamp |-> 0,
      progress_files |-> {}, output_files |-> {},
      loaded |-> [ last_message_id |-> 0, total_downloaded |-> 0 ],
      offset_id |-> 0, total_downloaded |-> 0, batch_count |-> 0,
      current_batch_size |-> 0, exit_reason |-> "none" ]

Formats == {"csv", "json", "html", "both", "all"}

\* which records carry an attachment: none, the newest, the newest and the oldest
MediaChoices(l, n) == { {}, {l + n}, {l + n, l + 1} }

\* the records with an even identifier come with a sender
EvenIds(l, n) == { i \in (l + 1)..(l + n) : i % 2 = 0 }

\* which records come with a sender: the even ones, the newest one only
SenderChoices(l, n) == { EvenIds(l, n), {l + n} }

\* a small chat, with or without identifiers missing at its old end
SmallSources ==
    UNION { { [lo |-> l, n |-> SmallRecords, media |-> m, senders |-> sd] :
                m \in MediaChoices(l, SmallRecords),
                sd \in SenderChoices(l, SmallRecords) } : l \in {0, IdGap} }

\* the arguments of download_messages_incremental used against a small chat
SmallConfigs ==
    [ batch_size : {SmallBatch}, max_messages : {0, SmallCap},
      download_media_later : BOOLEAN, save_format : Formats ]

\* a chat and a batch size that reach the periodic save inside a batch
LargeSources ==
    { [lo |-> 0, n |-> MaxRecords, media |-> {MaxRecords},
       senders |-> EvenIds(0, MaxRecords)] }

LargeConfigs ==
    [ batch_size : {LargeBatch}, max_messages : {0},
      download_media_later : {TRUE}, save_format : {"json"} ]

\* files that are in the media directory without having been stored by the
\* job: names without '_', names whose leading token is not a number, and a
\* name that leads with the number 3
StrayFiles ==
    { << "1" >>, << "x", "_", "1" >>, << "_", "1" >>, << "-", "_", "1" >>,
      << "-", "1", "_", "x" >>, << "0", "3", "_", "x" >> }

Init ==
    /\ \/ /\ source \in SmallSources /\ cfg \in SmallConfigs
          \* the sinks do not look at identifiers: the formats are varied
          \* over the chat whose identifiers start above the threshold of
          \* line 593, which is the chat a later run can resume
          /\ source.lo = 0 => cfg.save_format = "json"
          \* the senders are varied where the keys of a record are looked
          \* at, which is in the CSV file
          /\ cfg.save_format # "csv"
                => source.senders = EvenIds(source.lo, source.n)
       \/ source \in LargeSources /\ cfg \in LargeConfigs
    /\ pc = "idle"
    /\ runs = 0
    /\ floods = 0
    /\ loaded = ZeroRecord
    /\ progress = ZeroRecord
    /\ progress_file = NoFile
    /\ messages_with_media = << >>
    /\ text_download_complete = FALSE
    /\ total_downloaded = 0
    /\ offset_id = 0
    /\ is_first = TRUE
    /\ batch_count = Unbound
    /\ current_batch_size = 0
    /\ exit_reason = "none"
    /\ csv_file = "none" /\ json_file = "none" /\ html_file = "none"
    /\ csv_writer = << >>
    /\ csv_data = << >> /\ json_data = << >> /\ html_data = << >>
    /\ media_dir \in { {}, StrayFiles }
    /\ media_to_download = << >>
    /\ media_i = 0
    /\ media_downloaded = 0
    /\ download_calls = {}
    /\ last_save = "none"
    /\ exhausted_seen = FALSE
    /\ media_failed = {}
    /\ prompt = "none"
    /\ declined = << >>
    /\ v1 = V1Init
    /\ sel = SelInit
    /\ page = PageInit

\* ------------------------------------------------------------ entry
\* line 593: the heuristic that takes the text download for complete
text_complete_heuristic(p) ==
    p.last_message_id <= LowIdThreshold /\ p.total_downloaded > 0

\* a faulty variant of enters_phase1: media_downloaded is not looked at
enters_phase1_any(p) == ~text_complete_heuristic(p)

\* line 596: the condition under which Phase 1 runs
enters_phase1(p) == ~p.media_downloaded /\ ~text_complete_heuristic(p)

\* the files setup_output_files opens, in the order it opens them
SinkOrder == << "csv", "json", "html" >>

Wants(sink, fmt) ==
    IF sink = "csv" THEN WantsCsv(fmt)
    ELSE IF sink = "json" THEN WantsJson(fmt)
    ELSE WantsHtml(fmt)

Position(sink) == CHOOSE i \in 1..3 : SinkOrder[i] = sink

\* setup_output_files, one sink: what becomes of its handle and of its file
\* when the open() call of the sink `open_fails` raises ("none": no open()
\* raises).  The sinks before the failing one are opened and truncated, the
\* failing one and the ones after it are not.  "failed" marks the handle
\* whose open() raised.
opened_handle(sink, fmt, open_fails) ==
    IF ~Wants(sink, fmt) THEN "none"
    ELSE IF open_fails = "none" THEN "open"
    ELSE IF Position(sink) < Position(open_fails) THEN "open"
    ELSE IF sink = open_fails THEN "failed"
    ELSE "none"

\* a faulty variant of opened_data: the file is opened in append mode
opened_data_append(handle, header, data) ==
    IF handle = "open" THEN data \o header ELSE data

\* open(..., 'w') and the header written at once
opened_data(handle, header, data) == IF handle = "open" THEN header ELSE data

\* lines 540-611: a new process selects the job, loads its progress and either
\* enters Phase 1 (opening the sinks) or goes on to the Phase 2 decision.
\* An exception out of setup_output_files (line 606, outside the try
\* statement) ends the run.
StartRun(open_fails) ==
    /\ pc = "idle"
    /\ runs < MaxRuns
    \* find_existing_downloads lists only the jobs whose progress file parses
    /\ progress_file.exists => IsRecord(progress_file)
    /\ \E p \in { load_progress(progress_file) },
          inv \in { load_inventory(progress_file, << >>) } :
       LET tdc == text_complete_heuristic(p)
           phase1 == enters_phase1(p)
           fmt == cfg.save_format
       IN  /\ runs' = runs + 1
           /\ loaded' = p
           /\ progress' = p
           /\ messages_with_media' = inv
           /\ text_download_complete' = tdc
           /\ floods' = floods
           /\ batch_count' = Unbound
           /\ current_batch_size' = 0
           /\ exit_reason' = "none"
           /\ last_save' = "none"
           /\ download_calls' = {}
           /\ prompt' = "none"
           /\ declined' = IF prompt = "n" THEN messages_with_media ELSE << >>
           /\ media_to_download' = << >>
           /\ media_i' = 0
           /\ media_downloaded' = 0
           /\ total_downloaded' = p.total_downloaded
           /\ offset_id' = p.last_message_id
           /\ is_first' = (p.total_downloaded = 0)
           /\ csv_writer' = << >>
           /\ open_fails # "none" => (phase1 /\ Wants(open_fails, fmt))
           /\ IF phase1
              THEN \* setup_output_files: every selected file is opened with 'w'
                   /\ csv_file'  = opened_handle("csv", fmt, open_fails)
                   /\ json_file' = opened_handle("json", fmt, open_fails)
                   /\ html_file' = opened_handle("html", fmt, open_fails)
                   /\ csv_data'  = opened_data(csv_file', << >>, csv_data)
                   /\ json_data' = opened_data(json_file', << JSON_OPEN >>, json_data)
                   /\ html_data' = opened_data(html_file', << HTML_HEADER >>, html_data)
                   /\ pc' = IF open_fails = "none" THEN "loop_top" ELSE "idle"
              ELSE /\ csv_file' = "none" /\ json_file' = "none" /\ html_file' = "none"
                   /\ UNCHANGED << csv_data, json_data, html_data >>
                   /\ pc' = "phase2_check"
    /\ UNCHANGED << source, cfg, v1, sel, page, media_failed, progress_file, media_dir, exhausted_seen >>

\* a faulty variant of LoopTop: lines 618-619 are left out and every request
\* asks for batch_size records
LoopTopFullBatch ==
    /\ pc = "loop_top"
    /\ IF cfg.max_messages # 0 /\ total_downloaded >= cfg.max_messages
       THEN /\ pc' = "finally"
            /\ exit_reason' = "cap"
            /\ UNCHANGED << batch_count, current_batch_size >>
       ELSE /\ current_batch_size' = cfg.batch_size
            /\ batch_count' = 0
            /\ pc' = "fetch"
            /\ UNCHANGED exit_reason
    /\ UNCHANGED << source, cfg, v1, sel, page, media_failed, prompt, declined, loaded, runs, floods, progress, progress_file,
                    messages_with_media, text_download_complete, total_downloaded,
                    offset_id, is_first, csv_file, json_file, html_file, csv_writer,
                    csv_data, json_data, html_data, media_dir, media_to_download,
                    media_i, media_downloaded, download_calls, last_save,
                    exhausted_seen >>

\* ----------------------------------------------------- Phase 1 loop
\* lines 614-624: the cap test and the size of the next request
LoopTop ==
    /\ pc = "loop_top"
    /\ IF cfg.max_messages # 0 /\ total_downloaded >= cfg.max_messages
       THEN /\ pc' = "finally"
            /\ exit_reason' = "cap"
            /\ UNCHANGED << batch_count, current_batch_size >>
       ELSE /\ current_batch_size' =
                 IF cfg.max_messages # 0
                 THEN Min(cfg.batch_size, cfg.max_messages - total_downloaded)
                 ELSE cfg.batch_size
            /\ batch_count' = 0
            /\ pc' = "fetch"
            /\ UNCHANGED exit_reason
    /\ UNCHANGED << source, cfg, v1, sel, page, media_failed, prompt, declined, loaded, runs, floods, progress, progress_file,
                    messages_with_media, text_download_complete, total_downloaded,
                    offset_id, is_first, csv_file, json_file, html_file, csv_writer,
                    csv_data, json_data, html_data, media_dir, media_to_download,
                    media_i, media_downloaded, download_calls, last_save,
                    exhausted_seen >>

\* the iterator has another record to deliver in this request
MoreInBatch == batch_count < current_batch_size /\ Older(offset_id) # {}

\* lines 627-661: one record of the batch: parse, write, count, maybe save
FetchMessage ==
    /\ pc = "fetch"
    /\ MoreInBatch
    /\ LET id == NextMessage(offset_id)
           bc == batch_count + 1
           td == total_downloaded + 1
           inv == track_media(messages_with_media, id)
       IN  /\ messages_with_media' = inv
           /\ csv_data'  = IF csv_file = "open" THEN csv_write(csv_data, csv_writer, id)
                           ELSE csv_data
           /\ csv_writer' = IF csv_file = "open" /\ csv_writer = << >>
                            THEN message_keys(id) ELSE csv_writer
           /\ json_data' = IF json_file = "open" THEN json_write(json_data, id, is_first)
                           ELSE json_data
           /\ html_data' = IF html_file = "open" THEN Append(html_data, id) ELSE html_data
           /\ is_first' = FALSE
           /\ batch_count' = bc
           /\ total_downloaded' = td
           /\ offset_id' = id
           /\ IF bc % SavePeriod = 0
              THEN /\ progress' = Snapshot(id, td)
                   /\ progress_file' = save_progress(Snapshot(id, td), inv)
                   /\ last_save' = "periodic"
              ELSE UNCHANGED << progress, progress_file, last_save >>
    /\ UNCHANGED << source, cfg, v1, sel, page, media_failed, prompt, declined, loaded, pc, runs, floods, text_download_complete,
                    current_batch_size, exit_reason, csv_file, json_file, html_file,
                    media_dir, media_to_download, media_i, media_downloaded,
                    download_calls, exhausted_seen >>

\* a faulty variant of BatchEnd: the test of line 668 is left out and an
\* empty batch is followed by the next request
BatchEndNoBreak ==
    /\ pc = "fetch"
    /\ ~MoreInBatch
    /\ IF batch_count = 0
       THEN /\ pc' = "loop_top"
            /\ UNCHANGED << exit_reason, exhausted_seen >>
            /\ UNCHANGED << progress, progress_file, last_save >>
       ELSE /\ progress' = Snapshot(offset_id, total_downloaded)
            /\ progress_file' =
                 save_progress(Snapshot(offset_id, total_downloaded), messages_with_media)
            /\ last_save' = "batch"
            /\ pc' = "loop_top"
            /\ UNCHANGED << exit_reason, exhausted_seen >>
    /\ UNCHANGED << source, cfg, v1, sel, page, media_failed, prompt, declined, loaded, runs, floods, messages_with_media,
                    text_download_complete, total_downloaded, offset_id, is_first,
                    batch_count, current_batch_size, csv_file, json_file, html_file,
                    csv_writer, csv_data, json_data, html_data, media_dir,
                    media_to_download, media_i, media_downloaded, download_calls >>

\* lines 668-684: the request is used up: stop on an empty batch, else save
BatchEnd ==
    /\ pc = "fetch"
    /\ ~MoreInBatch
    /\ IF batch_count = 0
       THEN /\ pc' = "finally"
            /\ exit_reason' = "exhausted"
            /\ exhausted_seen' = TRUE
            /\ UNCHANGED << progress, progress_file, last_save >>
       ELSE /\ progress' = Snapshot(offset_id, total_downloaded)
            /\ progress_file' =
                 save_progress(Snapshot(offset_id, total_downloaded), messages_with_media)
            /\ last_save' = "batch"
            /\ pc' = "loop_top"
            /\ UNCHANGED << exit_reason, exhausted_seen >>
    /\ UNCHANGED << source, cfg, v1, sel, page, media_failed, prompt, declined, loaded, runs, floods, messages_with_media,
                    text_download_complete, total_downloaded, offset_id, is_first,
                    batch_count, current_batch_size, csv_file, json_file, html_file,
                    csv_writer, csv_data, json_data, html_data, media_dir,
                    media_to_download, media_i, media_downloaded, download_calls >>

\* a faulty variant of FloodWait: the retry goes back to the offset the run
\* started with
FloodWaitRewind ==
    /\ pc = "fetch"
    /\ floods < MaxFloods
    /\ batch_count < current_batch_size
    /\ floods' = floods + 1
    /\ pc' = "loop_top"
    /\ offset_id' = loaded.last_message_id
    /\ UNCHANGED << source, cfg, v1, sel, page, media_failed, prompt, declined, loaded, runs, progress, progress_file,
                    messages_with_media, text_download_complete, total_downloaded,
                    is_first, batch_count, current_batch_size, exit_reason, csv_file,
                    json_file, html_file, csv_writer, csv_data, json_data, html_data,
                    media_dir, media_to_download, media_i, media_downloaded,
                    download_calls, last_save, exhausted_seen >>

\* lines 663-666: FloodWaitError out of the iterator: sleep, then `continue`
FloodWait ==
    /\ pc = "fetch"
    /\ floods < MaxFloods
    /\ batch_count < current_batch_size
    /\ floods' = floods + 1
    /\ pc' = "loop_top"
    /\ UNCHANGED << source, cfg, v1, sel, page, media_failed, prompt, declined, loaded, runs, progress, progress_file, messages_with_media,
                    text_download_complete, total_downloaded, offset_id, is_first,
                    batch_count, current_batch_size, exit_reason, csv_file, json_file,
                    html_file, csv_writer, csv_data, json_data, html_data, media_dir,
                    media_to_download, media_i, media_downloaded, download_calls,
                    last_save, exhausted_seen >>

\* lines 695-702: KeyboardInterrupt ("interrupt") and Exception ("error") are
\* caught; any other BaseException ("cancel") passes through the finally block
ExitKinds == {"interrupt", "error", "cancel"}

Interrupt(kind) ==
    /\ pc \in {"loop_top", "fetch"}
    /\ pc' = "finally"
    /\ exit_reason' = kind
    /\ UNCHANGED << source, cfg, v1, sel, page, media_failed, prompt, declined, loaded, runs, floods, progress, progress_file,
                    messages_with_media, text_download_complete, total_downloaded,
                    offset_id, is_first, batch_count, current_batch_size, csv_file,
                    json_file, html_file, csv_writer, csv_data, json_data, html_data,
                    media_dir, media_to_download, media_i, media_downloaded,
                    download_calls, last_save, exhausted_seen >>

\* ---------------------------------------------------------- finally
\* finalize_files and the three close() calls, lines 705-712
finalize_files ==
    /\ json_data' = IF json_file # "none" THEN Append(json_data, JSON_CLOSE) ELSE json_data
    /\ html_data' = IF html_file # "none" THEN Append(html_data, HTML_FOOTER) ELSE html_data

FinalizeFiles ==
    /\ pc = "finally"
    /\ finalize_files
    /\ csv_file'  = IF csv_file  # "none" THEN "closed" ELSE csv_file
    /\ json_file' = IF json_file # "none" THEN "closed" ELSE json_file
    /\ html_file' = IF html_file # "none" THEN "closed" ELSE html_file
    /\ pc' = "final_save"
    /\ UNCHANGED << source, cfg, v1, sel, page, media_failed, prompt, declined, loaded, runs, floods, progress, progress_file,
                    messages_with_media, text_download_complete, total_downloaded,
                    offset_id, is_first, batch_count, current_batch_size, exit_reason,
                    csv_writer, csv_data, media_dir, media_to_download, media_i,
                    media_downloaded, download_calls, last_save, exhausted_seen >>

\* lines 714-718: text_complete, media_downloaded and the last save of Phase 1.
\* Reading batch_count before its first assignment raises UnboundLocalError,
\* which leaves the function without the save.
FinalSave ==
    /\ pc = "final_save"
    /\ IF ~text_download_complete /\ batch_count = Unbound
       THEN /\ pc' = "idle"
            /\ UNCHANGED << progress, progress_file, last_save >>
       ELSE LET p == [ progress EXCEPT
                         !.text_complete =
                             IF text_download_complete \/ batch_count = 0
                             THEN TRUE ELSE @,
                         !.media_downloaded = ~cfg.download_media_later ]
            IN  /\ progress' = p
                /\ progress_file' = save_progress(p, messages_with_media)
                /\ last_save' = "final"
                /\ pc' = IF exit_reason = "cancel" THEN "idle" ELSE "phase2_check"
    /\ UNCHANGED << source, cfg, v1, sel, page, media_failed, prompt, declined, loaded, runs, floods, messages_with_media,
                    text_download_complete, total_downloaded, offset_id, is_first,
                    batch_count, current_batch_size, exit_reason, csv_file, json_file,
                    html_file, csv_writer, csv_data, json_data, html_data, media_dir,
                    media_to_download, media_i, media_downloaded, download_calls,
                    exhausted_seen >>

\* ----------------------------------------------------------- Phase 2
\* a file name is a sequence of characters; "d" and "t" stand for the date
\* and the time-with-extension parts of a stored attachment's name
\* line 773 and download_media: "<id>_<YYYYmmdd>_<HHMMSS><ext>"
media_filename(id) == Dec(id) \o << "_", "d", "_", "t" >>

\* filename.split('_')[0]
RECURSIVE leading_token(_)
leading_token(name) ==
    IF name = << >> \/ Head(name) = "_" THEN << >>
    ELSE << Head(name) >> \o leading_token(Tail(name))

\* int(s) succeeds: an optional sign followed by one or more digits
parses_as_int(s) ==
    LET body == IF s # << >> /\ Head(s) \in {"-", "+"} THEN Tail(s) ELSE s
    IN  body # << >> /\ \A i \in 1..Len(body) : IsDigit(body[i])

\* int(s) for a string that parses
int_value(s) ==
    IF Head(s) = "-" THEN 0 - digits_value(Tail(s))
    ELSE IF Head(s) = "+" THEN digits_value(Tail(s))
    ELSE digits_value(s)

\* a faulty variant of existing_media: a name without '_' is not ignored
existing_media_any(dir) ==
    { int_value(leading_token(name)) :
        name \in { f \in dir : parses_as_int(leading_token(f)) } }

\* lines 742-752: the identifiers that lead a file name of the media directory
existing_media(dir) ==
    { int_value(leading_token(name)) :
        name \in { f \in dir : /\ \E i \in 1..Len(f) : f[i] = "_"
                               /\ parses_as_int(leading_token(f)) } }

\* a faulty variant of remaining: the files on disk are not subtracted
remaining_all(inventory, on_disk) == inventory

\* line 757: the inventory minus the identifiers found in media/
remaining(inventory, on_disk) ==
    SelectSeq(inventory, LAMBDA id : id \notin on_disk)

\* a faulty variant of phase2_offer: the inventory is not looked at
phase2_offer_any(p, inventory) ==
    cfg.download_media_later /\ ~p.media_downloaded

\* line 727: the condition under which the media prompt is shown
phase2_offer(p, inventory) ==
    /\ cfg.download_media_later
    /\ Len(inventory) > 0
    /\ ~p.media_downloaded

\* lines 727-764 and 801-802: the offer, the answer and the work list;
\* without an offer there is no prompt and the answer plays no part
Phase2Check(download_media_now) ==
    /\ pc = "phase2_check"
    /\ prompt' = IF ~phase2_offer(progress, messages_with_media) THEN "none"
                 ELSE IF download_media_now THEN "y" ELSE "n"
    /\ declined' = << >>
    /\ IF phase2_offer(progress, messages_with_media) /\ download_media_now
       THEN LET todo == remaining(messages_with_media, existing_media(media_dir))
            IN  IF Len(todo) = 0
                THEN /\ progress' = [progress EXCEPT !.media_downloaded = TRUE]
                     /\ progress_file' =
                          save_progress([progress EXCEPT !.media_downloaded = TRUE],
                                        messages_with_media)
                     /\ last_save' = "media"
                     /\ pc' = "idle"
                     /\ UNCHANGED << media_to_download, media_i, media_downloaded >>
                ELSE /\ media_to_download' = todo
                     /\ media_i' = 1
                     /\ media_downloaded' = 0
                     /\ pc' = "phase2_loop"
                     /\ UNCHANGED << progress, progress_file, last_save >>
       ELSE /\ pc' = "idle"
            /\ UNCHANGED << progress, progress_file, last_save, media_to_download,
                            media_i, media_downloaded >>
    /\ UNCHANGED << source, cfg, v1, sel, page, media_failed, loaded, runs, floods, messages_with_media,
                    text_download_complete, total_downloaded, offset_id, is_first,
                    batch_count, current_batch_size, exit_reason, csv_file, json_file,
                    html_file, csv_writer, csv_data, json_data, html_data, media_dir,
                    download_calls, exhausted_seen >>

\* a faulty variant of Phase2Item: update_html_message_media (lines 482-486)
\* is called for a stored attachment and writes to the HTML file
Phase2ItemUpdatesHtml(outcome) ==
    /\ pc = "phase2_loop"
    /\ media_i <= Len(media_to_download)
    /\ LET id == media_to_download[media_i]
       IN  /\ download_calls' = IF outcome = "flood" THEN download_calls
                                ELSE download_calls \cup {id}
           /\ media_dir' = IF outcome = "ok" THEN media_dir \cup {media_filename(id)}
                           ELSE media_dir
           /\ html_data' = IF outcome = "ok" /\ html_data # << >>
                           THEN Append(html_data, id) ELSE html_data
           /\ media_downloaded' = IF outcome = "ok" THEN media_downloaded + 1
                                  ELSE media_downloaded
           /\ media_failed' = IF outcome = "error" THEN media_failed \cup {id}
                              ELSE IF outcome = "ok" THEN media_failed \ {id}
                              ELSE media_failed
    /\ media_i' = media_i + 1
    /\ UNCHANGED << source, cfg, v1, sel, page, prompt, declined, loaded, pc, runs, floods, progress, progress_file,
                    messages_with_media, text_download_complete, total_downloaded,
                    offset_id, is_first, batch_count, current_batch_size, exit_reason,
                    csv_file, json_file, html_file, csv_writer, csv_data, json_data,
                    media_to_download, last_save, exhausted_seen >>

\* lines 766-786: one identifier of the work list.  "ok": the attachment is
\* stored; "error": download_media raises; "flood": get_messages raises
\* FloodWaitError.  In each case the loop goes on with the next identifier.
MediaOutcomes == {"ok", "error", "flood"}

Phase2Item(outcome) ==
    /\ pc = "phase2_loop"
    /\ media_i <= Len(media_to_download)
    /\ LET id == media_to_download[media_i]
       IN  /\ download_calls' = IF outcome = "flood" THEN download_calls
                                ELSE download_calls \cup {id}
           /\ media_dir' = IF outcome = "ok" THEN media_dir \cup {media_filename(id)}
                           ELSE media_dir
           /\ media_downloaded' = IF outcome = "ok" THEN media_downloaded + 1
                                  ELSE media_downloaded
           /\ media_failed' = IF outcome = "error" THEN media_failed \cup {id}
                              ELSE IF outcome = "ok" THEN media_failed \ {id}
                              ELSE media_failed
    /\ media_i' = media_i + 1
    /\ UNCHANGED << source, cfg, v1, sel, page, prompt, declined, loaded, pc, runs, floods, progress, progress_file,
                    messages_with_media, text_download_complete, total_downloaded,
                    offset_id, is_first, batch_count, current_batch_size, exit_reason,
                    csv_file, json_file, html_file, csv_writer, csv_data, json_data,
                    html_data, media_to_download, last_save, exhausted_seen >>

\* lines 797-800: media_downloaded is set when every item was stored
Phase2End ==
    /\ pc = "phase2_loop"
    /\ media_i > Len(media_to_download)
    /\ IF Len(media_to_download) = media_downloaded
       THEN /\ progress' = [progress EXCEPT !.media_downloaded = TRUE]
            /\ progress_file' =
                 save_progress([progress EXCEPT !.media_downloaded = TRUE],
                               messages_with_media)
            /\ last_save' = "media"
       ELSE UNCHANGED << progress, progress_file, last_save >>
    /\ pc' = "idle"
    /\ UNCHANGED << source, cfg, v1, sel, page, media_failed, prompt, declined, loaded, runs, floods, messages_with_media,
                    text_download_complete, total_downloaded, offset_id, is_first,
                    batch_count, current_batch_size, exit_reason, csv_file, json_file,
                    html_file, csv_writer, csv_data, json_data, html_data, media_dir,
                    media_to_download, media_i, media_downloaded, download_calls,
                    exhausted_seen >>

\* a KeyboardInterrupt in the media loop is not caught: the run ends there
Phase2Interrupt ==
    /\ pc = "phase2_loop"
    /\ media_i <= Len(media_to_download)
    /\ pc' = "idle"
    /\ UNCHANGED << source, cfg, v1, sel, page, media_failed, prompt, declined, loaded, runs, floods, progress, progress_file,
                    messages_with_media, text_download_complete, total_downloaded,
                    offset_id, is_first, batch_count, current_batch_size, exit_reason,
                    csv_file, json_file, html_file, csv_writer, csv_data, json_data,
                    html_data, media_dir, media_to_download, media_i, media_downloaded,
                    download_calls, last_save, exhausted_seen >>

\* ------------------------------------------------- process kill in a save
\* the next statement of the run is a save_progress call (lines 679, 718,
\* 762 and 800; the save of line 661 follows the writes of a record and is
\* part of KilledInFetch)
SaveDue ==
    \/ pc = "fetch" /\ ~MoreInBatch /\ batch_count # 0
    \/ pc = "final_save" /\ ~ (~text_download_complete /\ batch_count = Unbound)
    \/ /\ pc = "phase2_check"
       /\ cfg.download_media_later
       /\ Len(messages_with_media) > 0
       /\ ~progress.media_downloaded
       /\ Len(remaining(messages_with_media, existing_media(media_dir))) = 0
    \/ /\ pc = "phase2_loop"
       /\ media_i > Len(media_to_download)
       /\ Len(media_to_download) = media_downloaded

\* save_progress, lines 178-179, when the process is killed after open() has
\* truncated the file and before json.dump and close() have written the whole
\* record: the run is over and the file is left torn.  Every record the run
\* has committed is in its sinks, which are flushed record by record.
KilledInSave ==
    /\ SaveDue
    /\ progress_file' \in TornFiles
    /\ pc' = "idle"
    /\ exit_reason' = "killed"
    /\ UNCHANGED << source, cfg, v1, sel, page, media_failed, prompt, declined, loaded, runs, floods, progress,
                    messages_with_media, text_download_complete, total_downloaded,
                    offset_id, is_first, batch_count, current_batch_size, csv_file,
                    json_file, html_file, csv_writer, csv_data, json_data, html_data,
                    media_dir, media_to_download, media_i, media_downloaded,
                    download_calls, last_save, exhausted_seen >>

\* the points of lines 627-661 at which a kill leaves a different disk: after
\* the write and flush to the CSV file, to the JSON file, to the HTML file
\* (the counters that follow are memory only), and inside the periodic save
FetchStages == << "csv", "json", "html", "save" >>

\* the write to `sink` comes before the point `stage`
WrittenAt(sink, stage) ==
    \E i, j \in 1..Len(FetchStages) :
        FetchStages[i] = sink /\ FetchStages[j] = stage /\ i <= j

\* a faulty variant of KilledInFetch: the record is counted and saved before
\* it is written, and the kill falls between the save and the writes
KilledInFetchSavedFirst(stage) ==
    /\ pc = "fetch"
    /\ MoreInBatch
    /\ stage = "save" => (batch_count + 1) % SavePeriod = 0
    /\ LET id == NextMessage(offset_id)
       IN  progress_file' =
               IF stage = "save"
               THEN save_progress(Snapshot(id, total_downloaded + 1),
                                  track_media(messages_with_media, id))
               ELSE progress_file
    /\ pc' = "idle"
    /\ exit_reason' = "killed"
    /\ UNCHANGED << source, cfg, v1, sel, page, media_failed, prompt, declined, loaded, runs, floods, progress,
                    messages_with_media, text_download_complete, total_downloaded,
                    offset_id, is_first, batch_count, current_batch_size, csv_file,
                    json_file, html_file, csv_writer, csv_data, json_data, html_data,
                    media_dir, media_to_download, media_i, media_downloaded,
                    download_calls, last_save, exhausted_seen >>

\* lines 627-661 when the process is killed while a record is handled: the
\* sinks written before the kill hold the record, the others do not; a kill
\* inside the periodic save finds every sink written and tears the progress
\* file; otherwise the progress file is as the last save left it
KilledInFetch(stage) ==
    /\ pc = "fetch"
    /\ MoreInBatch
    /\ stage = "save" => (batch_count + 1) % SavePeriod = 0
    /\ LET id == NextMessage(offset_id)
       IN  /\ csv_data'  = IF csv_file = "open" /\ WrittenAt("csv", stage)
                           THEN csv_write(csv_data, csv_writer, id) ELSE csv_data
           /\ json_data' = IF json_file = "open" /\ WrittenAt("json", stage)
                           THEN json_write(json_data, id, is_first) ELSE json_data
           /\ html_data' = IF html_file = "open" /\ WrittenAt("html", stage)
                           THEN Append(html_data, id) ELSE html_data
    /\ IF stage = "save" THEN progress_file' \in TornFiles
       ELSE UNCHANGED progress_file
    /\ pc' = "idle"
    /\ exit_reason' = "killed"
    /\ UNCHANGED << source, cfg, v1, sel, page, media_failed, prompt, declined, loaded, runs, floods, progress,
                    messages_with_media, text_download_complete, total_downloaded,
                    offset_id, is_first, batch_count, current_batch_size, csv_file,
                    json_file, html_file, csv_writer, media_dir, media_to_download,
                    media_i, media_downloaded, download_calls, last_save,
                    exhausted_seen >>

\* ------------------------------------ first-generation downloader
\* telegram-chat-download/telegram_downloader_incremental.py.  Its state is
\* the record v1: the clock in seconds (now), the progress files and output
\* files of the output directory, each with the timestamp of its name, and
\* the locals of the running download_messages_incremental (V1Init).
\* json.dump of the two-key dict of the first generation
v1_dump(o, t) ==
    << "{" >> \o json_member("last_message_id", Dec(o)) \o << "," >>
    \o json_member("total_downloaded", Dec(t)) \o << "}" >>

\* load_progress of the first generation
v1_load_progress(file) ==
    IF file.exists
    THEN [ last_message_id  |-> json_get_int(file.text, "last_message_id", 0),
           total_downloaded |-> json_get_int(file.text, "total_downloaded", 0) ]
    ELSE [ last_message_id |-> 0, total_downloaded |-> 0 ]

\* the file of the directory whose name carries the timestamp
v1_file(files, stamp) ==
    IF \E f \in files : f.stamp = stamp
    THEN CHOOSE f \in files : f.stamp = stamp
    ELSE NoFile

\* open(name, 'w') followed by the writing of text: the file of that
\* timestamp is created or replaced
v1_write(files, stamp, text) ==
    { f \in files : f.stamp # stamp }
        \cup { [ exists |-> TRUE, stamp |-> stamp, text |-> text ] }

\* save_progress of the first generation, into the file of this invocation
v1_save(files, stamp, o, t) == v1_write(files, stamp, v1_dump(o, t))

\* the variables of the second-generation downloader
MainVars ==
    << source, cfg, pc, runs, floods, loaded, progress, progress_file,
       messages_with_media, text_download_complete, total_downloaded,
       offset_id, is_first, batch_count, current_batch_size, exit_reason,
       csv_file, json_file, html_file, csv_writer, csv_data, json_data,
       html_data, media_dir, media_to_download, media_i, media_downloaded,
       download_calls, last_save, exhausted_seen, media_failed, prompt,
       declined >>

\* time passes between two invocations
V1Tick ==
    /\ v1.pc = "idle"
    /\ v1.now < V1MaxTime
    /\ v1' = [ v1 EXCEPT !.now = @ + 1 ]
    /\ UNCHANGED << MainVars, sel, page >>

\* lines 268-290: the file names are built from the time of the invocation,
\* the progress file of that name is loaded and the output file is opened
V1Start ==
    /\ v1.pc = "idle"
    /\ v1.runs < V1MaxRuns
    /\ \E p \in { v1_load_progress(v1_file(v1.progress_files, v1.now)) } :
          v1' = [ v1 EXCEPT
                    !.pc = "loop_top", !.runs = @ + 1, !.floods = 0,
                    !.stamp = v1.now, !.loaded = p,
                    !.output_files = v1_write(@, v1.now, << >>),
                    !.total_downloaded = p.total_downloaded,
                    !.offset_id = p.last_message_id,
                    !.batch_count = 0, !.current_batch_size = 0,
                    !.exit_reason = "none" ]
    /\ UNCHANGED << MainVars, sel, page >>

\* lines 294-304
V1LoopTop ==
    /\ v1.pc = "loop_top"
    /\ v1' = IF cfg.max_messages # 0 /\ v1.total_downloaded >= cfg.max_messages
             THEN [ v1 EXCEPT !.pc = "finally", !.exit_reason = "cap" ]
             ELSE [ v1 EXCEPT
                      !.pc = "fetch", !.batch_count = 0,
                      !.current_batch_size =
                          IF cfg.max_messages # 0
                          THEN Min(cfg.batch_size,
                                   cfg.max_messages - v1.total_downloaded)
                          ELSE cfg.batch_size ]
    /\ UNCHANGED << MainVars, sel, page >>

V1MoreInBatch ==
    v1.batch_count < v1.current_batch_size /\ Older(v1.offset_id) # {}

\* lines 307-334: one record: written, counted, saved every 25 of the batch
V1Fetch ==
    /\ v1.pc = "fetch"
    /\ V1MoreInBatch
    /\ LET id == NextMessage(v1.offset_id)
           bc == v1.batch_count + 1
           td == v1.total_downloaded + 1
       IN  v1' = [ v1 EXCEPT
                     !.output_files =
                         v1_write(@, v1.stamp,
                                  Append(v1_file(@, v1.stamp).text, id)),
                     !.batch_count = bc, !.total_downloaded = td,
                     !.offset_id = id,
                     !.progress_files =
                         IF bc % SavePeriod = 0
                         THEN v1_save(@, v1.stamp, id, td) ELSE @ ]
    /\ UNCHANGED << MainVars, sel, page >>

\* lines 341-352: the batch is over: the loop ends on an empty batch, and
\* otherwise saves and sleeps one second
V1BatchEnd ==
    /\ v1.pc = "fetch"
    /\ ~V1MoreInBatch
    /\ v1.batch_count = 0 \/ v1.now < V1MaxTime
    /\ v1' = IF v1.batch_count = 0
             THEN [ v1 EXCEPT !.pc = "finally", !.exit_reason = "exhausted" ]
             ELSE [ v1 EXCEPT
                      !.pc = "loop_top", !.now = @ + 1,
                      !.progress_files =
                          v1_save(@, v1.stamp, v1.offset_id, v1.total_downloaded) ]
    /\ UNCHANGED << MainVars, sel, page >>

\* lines 336-339: FloodWaitError: wait and ask again from the same offset
V1FloodWait ==
    /\ v1.pc = "fetch"
    /\ v1.floods < MaxFloods
    /\ v1' = [ v1 EXCEPT !.pc = "loop_top", !.floods = @ + 1 ]
    /\ UNCHANGED << MainVars, sel, page >>

\* lines 354-361: KeyboardInterrupt or another exception out of the loop
V1Interrupt ==
    /\ v1.pc \in {"loop_top", "fetch"}
    /\ v1' = [ v1 EXCEPT !.pc = "finally", !.exit_reason = "interrupt" ]
    /\ UNCHANGED << MainVars, sel, page >>

\* lines 363-373: the files are closed and the counters of the run are saved
V1Finally ==
    /\ v1.pc = "finally"
    /\ v1' = [ v1 EXCEPT
                 !.pc = "idle",
                 !.progress_files =
                     v1_save(@, v1.stamp, v1.offset_id, v1.total_downloaded) ]
    /\ UNCHANGED << MainVars, sel, page >>

NextV1 ==
    \/ V1Tick
    \/ V1Start
    \/ V1LoopTop
    \/ V1Fetch
    \/ V1BatchEnd
    \/ V1FloodWait
    \/ V1Interrupt
    \/ V1Finally

\* the first generation has no HTML sink, no second phase and no media
\* directory of its own: one format and one media choice stand for all
InitV1 ==
    /\ Init
    /\ cfg.save_format = "json"
    /\ cfg.download_media_later
    /\ media_dir = {}

SpecV1 == InitV1 /\ [][NextV1]_vars

\* ------------------------------------------------ job selection at entry
\* lines 544-587 and find_existing_downloads.  The state is the record sel:
\* the clock in ticks (now), the progress files of the output directory, each
\* under the timestamp of its base name (jobs), the list the operator was
\* shown and the answer typed (listing, choice), and the base name, the
\* record and the inventory the run starts with.

\* datetime.now().strftime('%Y%m%d_%H%M%S'), line 576: the time in whole
\* seconds
mint_base(now) == now \div TicksPerSecond

\* the progress file of a base name
sel_file(jobs, base) ==
    IF \E j \in jobs : j.stamp = base
    THEN (CHOOSE j \in jobs : j.stamp = base).file
    ELSE NoFile

\* find_existing_downloads, lines 488-512: the base names of the progress
\* files that json.load reads; every file name matches the one channel
find_existing_downloads(jobs) ==
    { j.stamp : j \in { k \in jobs : IsRecord(k.file) } }

\* the orders in which glob.glob may return the files
Listings(S) ==
    { l \in [ 1..Cardinality(S) -> S ] :
        \A i, j \in 1..Cardinality(S) : l[i] = l[j] => i = j }

\* what the operator types at the prompt of line 565
Choices ==
    { << "1" >>, << "2" >>, << "3" >>, << "0" >>, << "-", "1" >>, << "x" >>,
      << >> }

\* lines 567-579: int(choice) - 1 indexes the list when it is in range; a
\* ValueError of int() and an index out of range leave base_filename None,
\* and a name is minted from the time
select_base(listing, choice, now) ==
    IF /\ listing # << >>
       /\ parses_as_int(choice)
       /\ 0 <= int_value(choice) - 1
       /\ int_value(choice) - 1 < Len(listing)
    THEN listing[int_value(choice)]
    ELSE mint_base(now)

\* time passes between two invocations
SelTick ==
    /\ sel.pc = "idle"
    /\ sel.now < SelMaxTime
    /\ sel' = [ sel EXCEPT !.now = @ + 1 ]
    /\ UNCHANGED << MainVars, v1, page >>

\* lines 544-587: the jobs found are listed, the operator answers (there is
\* no prompt when none is found), the base name is fixed and load_progress
\* reads the progress file of that name
SelStart(choice) ==
    /\ sel.pc = "idle"
    /\ sel.runs < SelMaxRuns
    /\ \E listing \in Listings(find_existing_downloads(sel.jobs)) :
          /\ listing = << >> => choice = << >>
          /\ \E base \in { select_base(listing, choice, sel.now) } :
                sel' = [ sel EXCEPT
                           !.pc = "run", !.runs = @ + 1,
                           !.listing = listing, !.choice = choice,
                           !.base_filename = base,
                           !.loaded = load_progress(sel_file(sel.jobs, base)),
                           !.inventory =
                               load_inventory(sel_file(sel.jobs, base), << >>) ]
    /\ UNCHANGED << MainVars, v1, page >>

\* lines 627-679 for a batch of one record, after which the run is
\* interrupted: the record is committed and tracked and the per-batch save
\* writes the progress file of the base name; a batch of no record ends the
\* run without a save of its own
SelRun ==
    /\ sel.pc = "run"
    /\ IF Older(sel.loaded.last_message_id) = {}
       THEN sel' = [ sel EXCEPT !.pc = "idle" ]
       ELSE \E id \in { NextMessage(sel.loaded.last_message_id) } :
               sel' = [ sel EXCEPT
                          !.pc = "idle",
                          !.jobs =
                              { j \in @ : j.stamp # sel.base_filename }
                              \cup { [ stamp |-> sel.base_filename,
                                       file |-> save_progress(
                                           Snapshot(id, sel.loaded.total_downloaded + 1),
                                           track_media(sel.inventory, id)) ] } ]
    /\ UNCHANGED << MainVars, v1, page >>

NextSelect ==
    \/ SelTick
    \/ \E choice \in Choices : SelStart(choice)
    \/ SelRun

\* one chat and one configuration: the selection looks at neither
InitSelect ==
    /\ Init
    /\ source.lo # 0 /\ source.media = {source.lo + source.n}
    /\ source.senders = EvenIds(source.lo, source.n)
    /\ cfg.save_format = "json"
    /\ cfg.download_media_later
    /\ cfg.max_messages = 0
    /\ media_dir = {}

SpecSelect == InitSelect /\ [][NextSelect]_vars

\* ------------------------------------------------------- HTML writer
\* write_message_to_html, lines 391-480.  A string is the sequence of its
\* characters.  In the text written, a piece of the template is one token
\* (its name starts with '<' and is longer than one character), a character
\* reference is one token ("&lt;"), and any other character is itself.

\* html.escape(s), quote=True: &, <, >, " and ' become character references
escape_char(c) ==
    IF c = "&" THEN "&amp;"
    ELSE IF c = "<" THEN "&lt;"
    ELSE IF c = ">" THEN "&gt;"
    ELSE IF c = "\"" THEN "&quot;"
    ELSE IF c = "'" THEN "&#x27;"
    ELSE c

\* a faulty variant of html_escape: the string is inserted as it is
html_escape_none(str) == str

html_escape(str) == [ i \in 1..Len(str) |-> escape_char(str[i]) ]

\* str.lower(), for the letters that occur
lower_char(c) ==
    IF c = "J" THEN "j" ELSE IF c = "P" THEN "p" ELSE IF c = "G" THEN "g" ELSE c

lower(str) == [ i \in 1..Len(str) |-> lower_char(str[i]) ]

\* str.endswith(tuple of suffixes)
endswith(str, suffixes) ==
    \E suf \in suffixes :
        /\ Len(suf) <= Len(str)
        /\ SubSeq(str, Len(str) - Len(suf) + 1, Len(str)) = suf

ImageExtensions ==
    { << ".", "j", "p", "g" >>, << ".", "j", "p", "e", "g" >>,
      << ".", "p", "n", "g" >>, << ".", "g", "i", "f" >>,
      << ".", "w", "e", "b", "p" >> }

VideoExtensions ==
    { << ".", "m", "p", "4" >>, << ".", "w", "e", "b", "m" >>,
      << ".", "m", "o", "v" >> }

\* os.path.basename(path): what follows the last '/'
RECURSIVE basename(_)
basename(path) ==
    IF \E i \in 1..Len(path) : path[i] = "/"
    THEN basename(Tail(path))
    ELSE path

\* str.capitalize() of the media types _parse_message sets
capitalize(media_type) ==
    IF media_type = "photo" THEN "Photo"
    ELSE IF media_type = "document" THEN "Document"
    ELSE "Other"

\* lines 396-401
sender_display(m) ==
    LET sender_name == IF m.sender THEN m.sender_name
                       ELSE << "U", "n", "k", "n", "o", "w", "n" >>
    IN  IF m.sender /\ m.sender_username # << >>
        THEN sender_name \o << " ", "(", "@" >> \o m.sender_username \o << ")" >>
        ELSE sender_name

\* a faulty variant of media_block: a record whose attachment has not been
\* downloaded gets no media block
media_block_no_placeholder(m) ==
    IF m.media_path # << >>
    THEN << "<a href=" >> \o html_escape(m.media_path) \o << "</a>" >>
    ELSE << >>

\* lines 424-460: the media block of the record
media_block(m) ==
    IF m.media_path # << >>
    THEN IF m.media_type = "photo" \/ endswith(lower(m.media_path), ImageExtensions)
         THEN << "<img src=" >> \o html_escape(m.media_path) \o << "<img end>" >>
         ELSE IF endswith(lower(m.media_path), VideoExtensions)
         THEN << "<video source src=" >> \o html_escape(m.media_path)
              \o << "<video end>" >>
         ELSE << "<a href=" >> \o html_escape(m.media_path) \o << "<a text>" >>
              \o html_escape(basename(m.media_path)) \o << "</a>" >>
    ELSE IF m.has_media
    THEN << "<div media-placeholder>", capitalize(m.media_type),
            "(not downloaded yet)", "</div media-placeholder>" >>
    ELSE << >>

\* lines 391-480: what the function writes for the record.  The date and
\* the counters of the footer are not strings of the chat; the records here
\* have no date and no views or forwards, so there is no footer.
write_message_to_html(m) ==
    << "<div message data-message-id=" >> \o Dec(m.id)
    \o << "<span sender>" >> \o html_escape(sender_display(m))
    \o << "</span sender>", "<span date>", "Unknown date", "</span date>" >>
    \o << "<div message-text>" >> \o html_escape(m.text)
    \o << "</div message-text>" >>
    \o media_block(m)
    \o << "</div message>" >>

\* the strings of a chat: texts, names and handles with and without the
\* characters HTML gives a meaning to.  The empty text stands for None too
\* (line 413: `or ''`), the empty handle for None (line 398)
Texts == { << >>, << "a" >>, << "<", "a", ">" >>, << "&", "\"", "'" >> }
SenderNames == { << "a" >>, << "<", "&" >> }
SenderUsernames == { << >>, << "a" >>, << "\"", ">" >> }

\* the paths _parse_message stores when it downloads: media/<id>_<time>
\* followed by the extension the attachment brings
MediaPaths ==
    { << "m", "/", "1" >> \o ext :
        ext \in { << >>, << ".", "J", "P", "G" >>, << ".", "m", "p", "4" >>,
                  << ".", "p", "d", "f" >>, << ".", "<", "\"" >> } }

\* the records _parse_message returns: media_type is set exactly when the
\* message has an attachment, and a path is stored only for an attachment
MessageRecords ==
    { m \in [ id : {1}, text : Texts, sender : BOOLEAN,
              sender_name : SenderNames \cup { << >> },
              sender_username : SenderUsernames,
              has_media : BOOLEAN,
              media_type : {"none", "photo", "document", "other"},
              media_path : MediaPaths \cup { << >> } ] :
        /\ m.sender <=> m.sender_name # << >>
        /\ ~m.sender => m.sender_username = << >>
        /\ m.has_media <=> m.media_type # "none"
        /\ ~m.has_media => m.media_path = << >> }

\* write_message_incremental hands a record to the HTML writer
WriteHtml(m) ==
    /\ page' = [ written |-> TRUE, msg |-> m, out |-> write_message_to_html(m) ]
    /\ UNCHANGED << MainVars, v1, sel >>

NextHtml == \E m \in MessageRecords : WriteHtml(m)

SpecHtml == InitSelect /\ [][NextHtml]_vars

\* The variables an invocation that stops at line 540 leaves alone.
ResolveFrame ==
    UNCHANGED << source, cfg, v1, sel, page, media_failed, prompt, declined, loaded, runs,
                 floods, progress, progress_file, messages_with_media,
                 text_download_complete, total_downloaded, offset_id, is_first,
                 batch_count, current_batch_size, pc, csv_file, json_file,
                 html_file, csv_writer, media_dir, media_to_download, media_i,
                 media_downloaded, download_calls, last_save, exhausted_seen >>

\* a faulty variant of ResolveFails: the channel is resolved after the output
\* files have been opened
ResolveFailsAfterSetup ==
    /\ pc = "idle"
    /\ runs < MaxRuns
    /\ exit_reason' = "unresolved"
    /\ csv_data'  = IF WantsCsv(cfg.save_format)  THEN << >> ELSE csv_data
    /\ json_data' = IF WantsJson(cfg.save_format) THEN << JSON_OPEN >> ELSE json_data
    /\ html_data' = IF WantsHtml(cfg.save_format) THEN << HTML_HEADER >> ELSE html_data
    /\ ResolveFrame

\* lines 95-133 and 540: an invocation whose channel_input resolves to no
\* entity, neither through get_entity nor through the dialogs.  The exception
\* of line 133 leaves download_messages_incremental at its first statement.
\* Such invocations are followed as long as a run of the job can follow them.
ResolveFails ==
    /\ pc = "idle"
    /\ runs < MaxRuns
    /\ exit_reason' = "unresolved"
    /\ UNCHANGED << csv_data, json_data, html_data >>
    /\ ResolveFrame

\* ------------------------------------------------------ specification
Next ==
    \/ \E open_fails \in {"none", "csv", "json", "html"} : StartRun(open_fails)
    \/ LoopTop
    \/ FetchMessage
    \/ BatchEnd
    \/ FloodWait
    \/ \E kind \in ExitKinds : Interrupt(kind)
    \/ FinalizeFiles
    \/ FinalSave
    \/ \E answer \in BOOLEAN : Phase2Check(answer)
    \/ \E outcome \in MediaOutcomes : Phase2Item(outcome)
    \/ Phase2End
    \/ Phase2Interrupt
    \/ ResolveFails

Spec == Init /\ [][Next]_vars

\* the runs that no signal of the operator and no error interrupts, up to
\* the media prompt, which is declined
NextPhase1 ==
    \/ \E open_fails \in {"none", "csv", "json", "html"} : StartRun(open_fails)
    \/ LoopTop
    \/ FetchMessage
    \/ BatchEnd
    \/ FloodWait
    \/ FinalizeFiles
    \/ FinalSave
    \/ Phase2Check(FALSE)

\* the loop of lines 613-684 is sequential code: an enabled step of it is
\* taken; the rate-limit signals are the environment's and are at most
\* MaxFloods
SpecPhase1 ==
    /\ Init
    /\ [][NextPhase1]_vars
    /\ WF_vars(LoopTop)
    /\ WF_vars(FetchMessage)
    /\ WF_vars(BatchEnd)

\* the same runs, with the process kills that can hit the handling of a
\* record or a save_progress call
NextKill ==
    \/ Next
    \/ KilledInSave
    \/ \E stage \in Range(FetchStages) : KilledInFetch(stage)

SpecKill == Init /\ [][NextKill]_vars

\* ================================================================ claims
\* what a load of the progress file would return now
Persisted == load_progress(progress_file)

\* the inventory in the progress file
PersistedInventory == load_inventory(progress_file, << >>)

\* the run is inside the Phase 1 batch loop
InLoop == pc \in {"loop_top", "fetch"}

\* Phase 1 is over for this run: the loop was left and the finally block is done
Phase1Left ==
    /\ exit_reason \in {"exhausted", "cap"} \cup ExitKinds
    /\ pc \notin {"finally", "final_save"}

\* C1 - Phase gating: message.download_media is called in Phase 2 only when the
\* Progress Record says text_complete, i.e. after a zero-record batch has been
\* observed for the job, on every path out of Phase 1.
C1_PhaseGating ==
    download_calls # {} => (Persisted.text_complete /\ exhausted_seen)

\* C2 - End-to-end completion: when a run of a fresh job has observed a
\* zero-record batch and has made its final save, the Progress Record holds
\* total_downloaded = N, text_complete = true and exactly the M identifiers
\* that carry an attachment.
C2_EndToEnd ==
    (exit_reason = "exhausted" /\ last_save = "final")
        => /\ Persisted.total_downloaded = source.n
           /\ Persisted.text_complete
           /\ Range(PersistedInventory) = source.media
           /\ Len(PersistedInventory) = Cardinality(source.media)

\* C3 - Interrupted jobs are re-enterable: the run that follows a run whose
\* Phase 1 ended by interruption or error enters Phase 1 again, with the
\* offset and the count of the persisted Progress Record, whatever happened
\* after the interruption (stated for download_media_later = True, the value
\* main() passes).
C3_Reenterable ==
    [][ (/\ pc = "idle" /\ exit_reason \in ExitKinds /\ runs' = runs + 1
         /\ cfg.download_media_later)
          => /\ pc' = "loop_top"
             /\ offset_id' = Persisted.last_message_id
             /\ total_downloaded' = Persisted.total_downloaded ]_vars

\* C4 - Exact final save on interruption: after a user interruption the
\* Progress Record written in the finally block holds the identifier of the
\* last record committed and the number of records committed so far.
C4_ExactFinalSave ==
    (exit_reason = "interrupt" /\ last_save = "final")
        => /\ Persisted.last_message_id = offset_id
           /\ Persisted.total_downloaded = total_downloaded

\* the file ends with its terminator and holds it once
EndsOnce(data, token) ==
    /\ Len(data) > 0
    /\ data[Len(data)] = token
    /\ Cardinality({ i \in 1..Len(data) : data[i] = token }) = 1

\* C5 - Finalization on every exit path: once the batch loop has been left,
\* however it was left, every sink that was opened is finalized exactly once
\* and closed, and a Progress Record save has been made after it.
C5_FinalizedAndSaved ==
    Phase1Left
        => /\ csv_file # "open" /\ json_file # "open" /\ html_file # "open"
           /\ json_file = "closed" => EndsOnce(json_data, JSON_CLOSE)
           /\ html_file = "closed" => EndsOnce(html_data, HTML_FOOTER)
           /\ last_save \in {"final", "media"}

\* C6 - Bounded loss: during Phase 1 at most 25 committed records are not
\* covered by the persisted Progress Record, rate-limit retries included.
C6_BoundedLoss ==
    InLoop => total_downloaded - Persisted.total_downloaded <= SavePeriod

\* C7 (as stated) - Resume monotonicity: over saves, interruptions and reloads
\* the persisted total_downloaded never decreases and the persisted
\* last_message_id never increases.
C7_Monotone ==
    [][ progress_file.exists
          => /\ progress_file'.exists
             /\ Persisted'.total_downloaded >= Persisted.total_downloaded
             /\ Persisted'.last_message_id <= Persisted.last_message_id ]_vars

\* C7 (amended) - the persisted total_downloaded never decreases; the persisted
\* last_message_id never increases once it is non-zero (0 is the value of "no
\* record yet", which the first snapshot replaces by a fetched identifier);
\* and a run starts from exactly the record the previous run left.
C7_MonotoneOnceSet ==
    [][ /\ (progress_file.exists /\ progress_file' # progress_file)
          => /\ progress_file'.exists
             /\ \A old \in { Persisted }, new \in { Persisted' } :
                   /\ new.total_downloaded >= old.total_downloaded
                   /\ old.last_message_id # 0
                        => /\ new.last_message_id <= old.last_message_id
                           /\ new.last_message_id # 0
        /\ (progress_file.exists /\ runs' = runs + 1)
          => \A old \in { Persisted } :
                /\ loaded'.total_downloaded = old.total_downloaded
                /\ loaded'.last_message_id = old.last_message_id ]_vars

\* a resumed run has saved a record that is further on than the one it loaded
C7_Witness ==
    /\ runs >= 2
    /\ loaded.total_downloaded > 0
    /\ last_save \in {"periodic", "batch"}
    /\ Persisted.total_downloaded > loaded.total_downloaded
    /\ Persisted.last_message_id < loaded.last_message_id

\* the identifiers committed in this run, newest first
RunIds ==
    LET k   == total_downloaded - loaded.total_downloaded
        top == IF loaded.last_message_id = 0 THEN source.lo + source.n
               ELSE loaded.last_message_id - 1
    IN  [ i \in 1..k |-> top - i + 1 ]

\* "[\n" followed by the records joined by ",\n"
JsonPrefix(recs) ==
    [ i \in 1..(IF Len(recs) = 0 THEN 1 ELSE 2 * Len(recs)) |->
        IF i = 1 THEN JSON_OPEN
        ELSE IF i % 2 = 0 THEN recs[i \div 2]
        ELSE JSON_SEP ]

\* the token sequence parses as an array of n records
IsJsonArray(data, n) ==
    /\ Len(data) = (IF n = 0 THEN 2 ELSE 2 * n + 1)
    /\ data[1] = JSON_OPEN
    /\ data[Len(data)] = JSON_CLOSE
    /\ \A i \in 2..(Len(data) - 1) :
          IF i % 2 = 0 THEN data[i] > 0 ELSE data[i] = JSON_SEP

\* C8 - JSON prefix validity: in every Phase 1 run, fresh or resumed, the JSON
\* file before finalize is "[\n" followed by the records of the run joined by
\* ",\n", and after finalize it is a valid array of exactly those N records.
C8_JsonPrefix ==
    /\ json_file = "open" => json_data = JsonPrefix(RunIds)
    /\ json_file = "closed" => IsJsonArray(json_data, Len(RunIds))

\* C9 - text_complete means exhaustion: the final save of Phase 1 sets
\* text_complete when the loop ended on a zero-record batch, and the record
\* never says text_complete unless a zero-record batch has been observed.
C9_TextCompleteIffExhausted ==
    last_save = "final"
        => /\ exit_reason = "exhausted" => Persisted.text_complete
           /\ Persisted.text_complete => exhausted_seen

\* C10 - Completion criterion on re-run: a later run of a job whose media are
\* not done skips Phase 1 if and only if an earlier run of the job observed a
\* zero-record batch: it is not skipped because last_message_id is small, and
\* it is not entered again (truncating the sinks) once the text is exhausted.
C10_SkipIffExhausted ==
    /\ (/\ runs >= 1 /\ pc = "phase2_check" /\ exit_reason = "none"
        /\ ~loaded.media_downloaded) => exhausted_seen
    /\ (runs >= 2 /\ pc = "loop_top" /\ batch_count = Unbound) => ~exhausted_seen

\* C11 - media_downloaded is earned: the persisted media_downloaded becomes
\* true only in a Phase 2 step, and then every identifier of the work list
\* computed at the start of that Phase 2 has its file in the media directory
\* (or the work list was empty); no other step sets it.
C11_MediaFlagEarned ==
    [][ (~Persisted.media_downloaded /\ Persisted'.media_downloaded)
          => /\ pc \in {"phase2_check", "phase2_loop"}
             /\ \A i \in 1..Len(media_to_download) :
                   media_filename(media_to_download[i]) \in media_dir' ]_vars

\* C12 - No attachment is downloaded twice: the work list of a Phase 2 holds
\* each identifier once, only identifiers of the Media Inventory, and none
\* that leads a file name of the media directory; download_media is called
\* only for the current identifier of that list, so an attachment stored by
\* an earlier run is never requested again.
C12_NoDoubleDownload ==
    [][ /\ (pc = "phase2_check" /\ pc' = "phase2_loop")
          => /\ Range(media_to_download') \subseteq Range(messages_with_media)
             /\ Range(media_to_download') \cap existing_media(media_dir) = {}
             /\ Cardinality(Range(media_to_download')) = Len(media_to_download')
        /\ \A id \in download_calls' \ download_calls :
             /\ pc = "phase2_loop"
             /\ id = media_to_download[media_i]
             /\ id \notin download_calls
             /\ id \in Range(messages_with_media)
             /\ id \notin existing_media(media_dir) ]_vars

\* a later run is in Phase 2 and has called download_media, while an attachment
\* of the inventory stored by an earlier run is not on its work list
C12_Witness ==
    /\ runs >= 2
    /\ pc = "phase2_loop"
    /\ download_calls # {}
    /\ \E id \in Range(messages_with_media) :
          /\ media_filename(id) \in media_dir
          /\ id \notin Range(media_to_download)

\* the token before the first '_' of the file name f is a numeral of n:
\* the decimal digits of n, possibly after a '+' and after zeros
NamesId(f, n) ==
    \E k \in 1..Len(f) :
        /\ f[k] = "_"
        /\ \A j \in 1..(k - 1) : f[j] # "_"
        /\ LET tok == SubSeq(f, 1, k - 1)
               num == IF tok # << >> /\ tok[1] = "+" THEN Tail(tok) ELSE tok
           IN  \E z \in 0..Len(num) :
                 /\ \A j \in 1..z : num[j] = "0"
                 /\ SubSeq(num, z + 1, Len(num)) = Dec(n)

\* the tracked identifiers that no file of the media directory names
NotOnDisk == { id \in Range(messages_with_media) :
                 ~ \E f \in media_dir : NamesId(f, id) }

\* C13 - Remaining-set correctness: the work list Phase 2 starts with is, as
\* a set, the tracked identifiers minus those named by the integer token
\* before the first '_' of a file in the media directory; names without '_'
\* or with a non-numeric token count for nothing; Phase 2 declares the media
\* done without a loop only when that set is empty.
C13_RemainingSet ==
    [][ /\ (pc = "phase2_check" /\ pc' = "phase2_loop")
          => /\ Range(media_to_download') = NotOnDisk
             /\ NotOnDisk # {}
        /\ (pc = "phase2_check" /\ progress_file' # progress_file)
          => NotOnDisk = {} ]_vars

\* Phase 2 starts its loop in a directory that holds the malformed names and
\* a file that names a tracked identifier
C13_Witness ==
    /\ pc = "phase2_loop"
    /\ media_i = 1
    /\ StrayFiles \subseteq media_dir
    /\ Range(messages_with_media) \ NotOnDisk # {}
    /\ Range(media_to_download) = NotOnDisk

\* the message records of an output file, in file order
Records(data) == SelectSeq(data, LAMBDA x : x > 0)

\* the identifiers of the rows of the CSV file that follow the header row
CsvIds(data) == [ i \in 1..(Len(data) - 1) |-> data[i + 1][1] ]

\* every sink opened by this run holds the records of RunIds: each remote
\* record from the run's start offset down to offset_id, once
CommittedOnce ==
    /\ csv_file  \in {"open", "closed"} => CsvIds(csv_data)  = RunIds
    /\ json_file \in {"open", "closed"} => Records(json_data) = RunIds
    /\ html_file \in {"open", "closed"} => Records(html_data) = RunIds
    /\ total_downloaded > loaded.total_downloaded
          => offset_id = RunIds[Len(RunIds)]

\* C14 - Rate limit in Phase 1 is a retry: a FloodWaitError leaves the offset,
\* the count and the sinks as they are and leads to a new request from that
\* offset; every commit takes the newest remote record below the offset, so
\* over any number of signals each record is committed at most once and none
\* between the old and the new offset is left out.
C14_FloodRetry ==
    [][ /\ floods' = floods + 1
          => /\ pc' = "loop_top"
             /\ offset_id' = offset_id
             /\ total_downloaded' = total_downloaded
             /\ csv_data' = csv_data /\ json_data' = json_data
             /\ html_data' = html_data
        /\ (runs' = runs /\ total_downloaded' # total_downloaded)
          => /\ total_downloaded' = total_downloaded + 1
             /\ offset_id' \in SourceIds
             /\ offset_id # 0 => offset_id' < offset_id
             /\ \A j \in SourceIds :
                   ~ (offset_id' < j /\ (offset_id = 0 \/ j < offset_id))
        /\ CommittedOnce' ]_vars

\* a batch was cut by a FloodWaitError after some of its records were
\* committed, and the retry has committed further records
C14_Witness ==
    /\ pc = "fetch"
    /\ floods = 1
    /\ batch_count >= 1
    /\ cfg.max_messages = 0
    /\ (total_downloaded - loaded.total_downloaded - batch_count) % cfg.batch_size # 0

\* C15 - Rate limit in Phase 2 is never a skip: the media loop moves on from
\* an identifier only after download_media has been called for it in this
\* run; a FloodWaitError for the identifier is followed by another attempt
\* at the same identifier.
C15_FloodRetriesSame ==
    [][ (pc = "phase2_loop" /\ media_i' = media_i + 1)
          => media_to_download[media_i] \in download_calls' ]_vars

\* Phase 2 is offered at the decision point of this run
Phase2Offered ==
    /\ cfg.download_media_later
    /\ Len(messages_with_media) > 0
    /\ ~progress.media_downloaded

\* C16 - Per-attachment failure is tolerated: an error while downloading one
\* attachment leaves the media loop running at the next identifier; the
\* Phase 2 that had a failure ends with media_downloaded false; and a later
\* run that is not itself interrupted does not end before it has offered
\* Phase 2 with every failed identifier in its work list.
C16_FailureTolerated ==
    [][ /\ (pc = "phase2_loop" /\ ~ (media_failed' \subseteq media_failed))
          => /\ pc' = "phase2_loop"
             /\ media_i' = media_i + 1
        /\ (/\ pc = "phase2_loop" /\ pc' = "idle"
            /\ media_failed \cap Range(media_to_download) # {})
          => ~ Persisted'.media_downloaded
        /\ (/\ media_failed # {} /\ exit_reason \notin ExitKinds
            /\ pc # "idle" /\ pc' = "idle")
          => \/ pc = "phase2_loop"
             \/ /\ pc = "phase2_check"
                /\ Phase2Offered
                /\ media_failed \subseteq
                     Range(remaining(messages_with_media, existing_media(media_dir)))
        /\ (media_failed # {} /\ pc = "phase2_check" /\ pc' = "phase2_loop")
          => media_failed \subseteq Range(media_to_download') ]_vars

NoDuplicates(s) == Cardinality(Range(s)) = Len(s)

\* C17 - Idempotent inventory tracking: the Media Inventory, in memory and in
\* the Progress Record, never holds an identifier twice; within a run it only
\* grows at its end, by an identifier it did not hold; committing a record
\* whose identifier is already tracked (as when a resumed run fetches again
\* records tracked by an earlier run) leaves it unchanged; a run starts with
\* the inventory of the Progress Record.
C17_IdempotentInventory ==
    [][ /\ NoDuplicates(messages_with_media')
        /\ (progress_file'.exists /\ progress_file' # progress_file)
          => \A saved \in { PersistedInventory' } : NoDuplicates(saved)
        /\ runs' = runs
          => \/ messages_with_media' = messages_with_media
             \/ \E id \in source.media \ Range(messages_with_media) :
                   messages_with_media' = Append(messages_with_media, id)
        /\ (runs' = runs /\ total_downloaded' # total_downloaded)
          => /\ offset_id' \in Range(messages_with_media)
                  => messages_with_media' = messages_with_media
             /\ offset_id' \in source.media
                  => offset_id' \in Range(messages_with_media')
        /\ (runs' = runs + 1 /\ progress_file.exists)
          => messages_with_media' = PersistedInventory ]_vars

\* a resumed run has just committed again a record whose identifier was in
\* the inventory it loaded from the Progress Record
C17_Witness ==
    /\ runs >= 2
    /\ pc = "fetch"
    /\ batch_count >= 1
    /\ last_save = "none"
    /\ progress_file.exists
    /\ offset_id \in Range(PersistedInventory)
    /\ NoDuplicates(messages_with_media)

\* C18 - Sink independence on open: when several formats are selected and the
\* open() of one sink raises, the run still enters Phase 1 and every other
\* selected sink is open.
C18_SinkIndependence ==
    [][ (/\ runs' = runs + 1
         /\ cfg.save_format \in {"both", "all"}
         /\ "failed" \in {csv_file', json_file', html_file'})
          => /\ pc' = "loop_top"
             /\ WantsCsv(cfg.save_format)  => csv_file'  \in {"open", "failed"}
             /\ WantsJson(cfg.save_format) => json_file' \in {"open", "failed"}
             /\ WantsHtml(cfg.save_format) => html_file' \in {"open", "failed"} ]_vars

\* the records of an output file are n different records of the source, all
\* below the resume offset of this run
HoldsThisRun(recs, n) ==
    /\ Len(recs) = n
    /\ \A i \in 1..n :
          /\ recs[i] \in SourceIds
          /\ loaded.last_message_id # 0 => recs[i] < loaded.last_message_id
          /\ i > 1 => recs[i - 1] > recs[i]

\* C19 - Sinks restart clean on resume: a run that enters Phase 1, fresh or
\* resumed, starts each selected output file without any record, while its
\* count starts from the persisted total_downloaded; from then on each file
\* holds exactly the records committed in this run, all of them below the
\* resume offset, and total_downloaded is the loaded count plus that number.
C19_SinksRestartClean ==
    [][ /\ (runs' = runs + 1 /\ pc' = "loop_top")
          => /\ total_downloaded' = Persisted.total_downloaded
             /\ WantsCsv(cfg.save_format)  => CsvIds(csv_data')  = << >>
             /\ WantsJson(cfg.save_format) => Records(json_data') = << >>
             /\ WantsHtml(cfg.save_format) => Records(html_data') = << >>
        /\ LET n == total_downloaded' - loaded'.total_downloaded
           IN  /\ csv_file'  \in {"open", "closed"} => HoldsThisRun(CsvIds(csv_data'), n)
               /\ json_file' \in {"open", "closed"} => HoldsThisRun(Records(json_data'), n)
               /\ html_file' \in {"open", "closed"} => HoldsThisRun(Records(html_data'), n) ]_vars

\* a resumed run has written records to a file that an earlier run had filled
C19_Witness ==
    /\ runs >= 2
    /\ loaded.total_downloaded > 0
    /\ csv_file = "closed"
    /\ CsvIds(csv_data) # << >>
    /\ total_downloaded = loaded.total_downloaded + Len(CsvIds(csv_data))
    /\ Persisted.total_downloaded > Len(CsvIds(csv_data))

\* C20 - Crash atomicity of the Progress Record: whenever the process is
\* killed during save_progress, the progress file holds a complete record,
\* the previous one or the new one, so the next json.load of the file
\* returns a record.
C20_SaveAtomic ==
    progress_file.exists => IsRecord(progress_file)

\* C21 - DONE is a no-op: a run started over a persisted record that says
\* media_downloaded and text_complete never enters the batch loop, shows no
\* media prompt, requests no attachment, opens or truncates no sink file and
\* leaves the progress file and the media directory as they are.
C21_DoneIsNoOp ==
    [][ ( \/ pc = "idle" /\ Persisted.media_downloaded /\ Persisted.text_complete
          \/ pc # "idle" /\ loaded.media_downloaded /\ loaded.text_complete )
          => /\ progress_file' = progress_file
             /\ csv_data' = csv_data /\ json_data' = json_data
             /\ html_data' = html_data
             /\ csv_file' \notin {"open", "failed"}
             /\ json_file' \notin {"open", "failed"}
             /\ html_file' \notin {"open", "failed"}
             /\ media_dir' = media_dir
             /\ download_calls' \subseteq download_calls
             /\ prompt' \in {"none", prompt}
             /\ pc' \in {"idle", "phase2_check"} ]_vars

\* a run over a job that was DONE when it started has ended; the job has
\* media in its inventory and the run was configured to download it
C21_Witness ==
    /\ runs >= 2
    /\ pc = "idle"
    /\ loaded.media_downloaded /\ loaded.text_complete
    /\ loaded = Persisted
    /\ cfg.download_media_later
    /\ Len(messages_with_media) > 0
    /\ last_save = "none"

\* C22 - Phase 2 offer precondition: the media prompt is shown only when the
\* inventory is non-empty and media_downloaded is false in the run's record
\* and in the file; an attachment is requested only after the prompt was
\* answered with yes, so without a prompt there is no download.
C22_OfferPrecondition ==
    [][ /\ (pc = "phase2_check" /\ prompt' # "none")
          => /\ Len(messages_with_media) > 0
             /\ ~progress.media_downloaded
             /\ ~Persisted.media_downloaded
        /\ (pc = "phase2_check" /\ ( Len(messages_with_media) = 0
                                     \/ progress.media_downloaded ))
          => (prompt' = "none" /\ pc' = "idle" /\ download_calls' = {})
        /\ (download_calls' # {} \/ media_dir' # media_dir) => prompt = "y" ]_vars

\* the prompt was shown over a non-empty inventory and was declined
C22_Witness ==
    /\ pc = "idle"
    /\ prompt = "n"
    /\ Len(messages_with_media) > 0
    /\ ~Persisted.media_downloaded

\* C23 - Declining Phase 2 changes nothing: the declining step requests no
\* attachment and leaves the media directory and the progress file, with the
\* inventory and media_downloaded = FALSE in it, unchanged; the next run of
\* the job that is not interrupted shows the prompt again, over the same
\* inventory.
C23_DeclineKeepsJob ==
    [][ /\ (pc = "phase2_check" /\ prompt' = "n")
          => /\ download_calls' = {}
             /\ media_dir' = media_dir
             /\ progress_file' = progress_file
             /\ ~Persisted.media_downloaded
             /\ load_inventory(progress_file, << >>) = messages_with_media
        /\ (declined # << >> /\ pc # "idle" /\ pc' = "idle"
            /\ exit_reason' \notin ExitKinds)
          => (prompt' # "none" /\ messages_with_media' = declined) ]_vars

\* C24 - Cap handling: a Phase 1 that stopped at the max_messages cap ends
\* normally: its sinks are closed, the Progress Record is saved with the
\* counters of the run, and the run goes on to the Phase 2 decision; a run
\* resumed at or above the cap requests nothing.
C24_CapEndsNormally ==
    [][ /\ (pc = "final_save" /\ exit_reason = "cap")
          => /\ pc' = "phase2_check"
             /\ last_save' = "final"
             /\ Persisted'.total_downloaded = total_downloaded
             /\ csv_file # "open" /\ json_file # "open" /\ html_file # "open"
        /\ (pc = "loop_top" /\ cfg.max_messages # 0
            /\ total_downloaded >= cfg.max_messages)
          => (pc' = "finally" /\ offset_id' = offset_id) ]_vars

\* C25 - Progress Store round trip: a run started without a progress file
\* loads the zero record and an empty inventory; whenever a record is saved,
\* loading the file that was written returns the record that was saved and
\* the inventory of the moment of the save; and a run started over a file
\* takes its record and its inventory from the text of that file.
C25_StoreRoundTrip ==
    [][ /\ (runs' = runs + 1 /\ ~progress_file.exists)
          => /\ loaded' = [ last_message_id |-> 0, total_downloaded |-> 0,
                            media_downloaded |-> FALSE, text_complete |-> FALSE ]
             /\ messages_with_media' = << >>
        /\ (last_save' # last_save /\ last_save' # "none")
          => /\ progress_file' = save_progress(progress', messages_with_media')
             /\ load_progress(progress_file') = progress'
             /\ json_get_list(progress_file'.text, "messages_with_media", << >>)
                  = messages_with_media'
        /\ (runs' = runs + 1 /\ progress_file.exists)
          => /\ loaded' = load_progress(progress_file)
             /\ progress' = loaded'
             /\ messages_with_media'
                  = json_get_list(progress_file.text, "messages_with_media", << >>) ]_vars

\* a second run has loaded a record with a two-digit offset, a count, both
\* flags set and an inventory of two identifiers
C25_Witness ==
    /\ runs >= 2
    /\ loaded = Persisted
    /\ loaded.last_message_id >= 10
    /\ loaded.total_downloaded >= 2
    /\ loaded.media_downloaded /\ loaded.text_complete
    /\ Len(messages_with_media) >= 2
    /\ messages_with_media = PersistedInventory

\* the sinks whose file the run has opened
OpenedSinks(c, j, h) ==
    { sink \in {"csv", "json", "html"} :
        \/ sink = "csv"  /\ c = "open"
        \/ sink = "json" /\ j = "open"
        \/ sink = "html" /\ h = "open" }

\* C26 - Format selector: a run that enters Phase 1 has opened exactly the
\* sinks save_format names: csv the CSV file, json the JSON file, html the
\* HTML file, both the CSV and the JSON file, all the three of them; and no
\* step of a run opens, or tries to open, a sink that save_format does not
\* name.
C26_FormatSelector ==
    [][ /\ (runs' = runs + 1 /\ pc' = "loop_top")
          => LET f == cfg.save_format
                 o == OpenedSinks(csv_file', json_file', html_file')
             IN  /\ f = "csv"  => o = {"csv"}
                 /\ f = "json" => o = {"json"}
                 /\ f = "html" => o = {"html"}
                 /\ f = "both" => o = {"csv", "json"}
                 /\ f = "all"  => o = {"csv", "json", "html"}
        /\ csv_file'  # "none" => cfg.save_format \in {"csv", "both", "all"}
        /\ json_file' # "none" => cfg.save_format \in {"json", "both", "all"}
        /\ html_file' # "none" => cfg.save_format \in {"html", "all"} ]_vars

\* a run with save_format = "both" is fetching with the CSV and the JSON file
\* open and no HTML file
C26_Witness ==
    /\ pc = "fetch"
    /\ cfg.save_format = "both"
    /\ OpenedSinks(csv_file, json_file, html_file) = {"csv", "json"}
    /\ html_file = "none" /\ html_data = << >>
    /\ CsvIds(csv_data) # << >> /\ Records(json_data) # << >>

\* the row written for a record has one cell per column of the header: the
\* identifier first, under has_media the record's own value, and under
\* sender_name the sender when the record has one and nothing otherwise
RowFitsHeader(header, row) ==
    /\ Len(row) = Len(header)
    /\ row[1] \in SourceIds
    /\ \A k \in 2..Len(row) :
          /\ header[k] = "has_media"
                => row[k] = (IF row[1] \in source.media THEN "True" ELSE "False")
          /\ header[k] = "sender_name"
                => row[k] = (IF HasSender(row[1]) THEN "s" ELSE "")

\* C27 - CSV schema tolerance: the first record of a run fixes the header;
\* a later record with a key the header lacks is written without an error
\* (the run goes on fetching), its row has the columns of the header only,
\* so the value of the extra key is not in the file, and the cells of its
\* other keys are written as for any record.
C27_CsvIgnoresExtras ==
    [][ /\ csv_data' # << >>
          => /\ csv_file' = "open" => csv_writer' = csv_data'[1]
             /\ \A i \in 2..Len(csv_data') : RowFitsHeader(csv_data'[1], csv_data'[i])
        /\ (pc = "fetch" /\ csv_file = "open" /\ total_downloaded' > total_downloaded
            /\ csv_writer # << >>)
          => /\ csv_writer' = csv_writer
             /\ Len(csv_data') = Len(csv_data) + 1
             /\ csv_data'[Len(csv_data')][1] = offset_id'
             /\ exit_reason' = exit_reason
             /\ pc' \in {"fetch", "loop_top"} ]_vars

\* the header has no sender_name column and a later row of the file is the
\* row of a record that has a sender
C27_Witness ==
    /\ Len(csv_data) >= 3
    /\ csv_data[1] = << "id", "has_media" >>
    /\ HasSender(csv_data[Len(csv_data)][1])
    /\ csv_file = "open"

\* the rows of the file that are header rows: their second cell is the key
\* has_media, where a data row has the value of the key
HeaderRows(data) == { i \in 1..Len(data) : data[i][2] = "has_media" }

\* C31 - CSV header and missing keys: in a run that writes the CSV file the
\* header row is written once, by the first record the run commits, as the
\* first row of the file and with the keys of that record; every later
\* record adds exactly one row, which has one cell per column of the header,
\* the cell of a column whose key the record lacks being empty, and the run
\* goes on without an error.
C31_CsvHeaderOnce ==
    [][ (pc = "fetch" /\ csv_file = "open" /\ total_downloaded' > total_downloaded)
          => \A id \in { offset_id' } :
                /\ csv_writer = << >>
                     => /\ csv_data = << >>
                        /\ csv_writer' = message_keys(id)
                        /\ Len(csv_data') = 2
                        /\ csv_data'[1] = message_keys(id)
                /\ csv_writer # << >>
                     => /\ csv_writer' = csv_writer
                        /\ Len(csv_data') = Len(csv_data) + 1
                        /\ SubSeq(csv_data', 1, Len(csv_data)) = csv_data
                /\ HeaderRows(csv_data') = {1}
                /\ \A row \in { csv_data'[Len(csv_data')] } :
                      /\ Len(row) = Len(csv_writer')
                      /\ row[1] = id
                      /\ \A k \in 2..Len(row) :
                            csv_writer'[k] \notin Range(message_keys(id))
                               <=> row[k] = ""
                /\ exit_reason' = exit_reason
                /\ pc' \in {"fetch", "loop_top"} ]_vars

\* the header has the column sender_name, taken from the first record of the
\* run, and a later row of the file has an empty cell in that column
C31_Witness ==
    /\ csv_file = "open"
    /\ Len(csv_data) >= 3
    /\ csv_data[1] = << "id", "has_media", "sender_name" >>
    /\ csv_data[Len(csv_data)][3] = ""
    /\ ~HasSender(csv_data[Len(csv_data)][1])

\* the operator typed the number of entry i of the list that was shown
Picked(i) == sel.choice = Dec(i)

\* C32 - Job selection at entry: when the operator answers with the number
\* of a listed job, the run takes the base name of that job and starts with
\* the record and the inventory of its progress file; with any other answer
\* (the number of 'start new', a number out of range, no number) and when no
\* job is listed, the base name is the name of no existing job and the run
\* starts with the zero record and an empty inventory.
C32_JobSelection ==
    [][ sel'.runs = sel.runs + 1
          => /\ \A i \in 1..Len(sel'.listing) :
                   Picked(i)'
                     => /\ sel'.base_filename = sel'.listing[i]
                        /\ sel'.loaded
                             = load_progress(sel_file(sel.jobs, sel'.listing[i]))
                        /\ sel'.inventory
                             = load_inventory(sel_file(sel.jobs, sel'.listing[i]), << >>)
             /\ (\A i \in 1..Len(sel'.listing) : ~Picked(i)')
                   => /\ \A j \in sel.jobs : j.stamp # sel'.base_filename
                      /\ sel'.loaded = ZeroRecord
                      /\ sel'.inventory = << >> ]_vars

\* the tokens that open a media block, by the kind of the block
BlockOpeners ==
    [ img |-> "<img src=", video |-> "<video source src=", link |-> "<a href=",
      placeholder |-> "<div media-placeholder>" ]

BlockKinds == {"img", "video", "link", "placeholder"}

\* the positions of the text written at which a media block opens
BlockStarts(out) ==
    { i \in 1..Len(out) : \E k \in BlockKinds : out[i] = BlockOpeners[k] }

\* the path ends in one of the extensions, whatever the case of its letters
HasExtension(path, exts) ==
    \E e \in exts :
        /\ Len(e) <= Len(path)
        /\ \A i \in 1..Len(e) :
              lower_char(path[Len(path) - Len(e) + i]) = e[i]

\* the kinds of media block the record may get
BlocksAllowed(m) ==
    IF m.media_path # << >>
    THEN { k \in {"img", "video", "link"} :
             \/ k = "img" /\ ( \/ m.media_type = "photo"
                               \/ HasExtension(m.media_path, ImageExtensions) )
             \/ k = "video" /\ HasExtension(m.media_path, VideoExtensions)
             \/ k = "link" /\ m.media_type # "photo"
                           /\ ~HasExtension(m.media_path, ImageExtensions)
                           /\ ~HasExtension(m.media_path, VideoExtensions) }
    ELSE IF m.has_media THEN {"placeholder"}
    ELSE {}

\* C33 - HTML media block selection: the text written for a record has at
\* most one media block; a record with a local path gets exactly one, an
\* image tag (type photo or image extension), a video tag (video extension)
\* or an attachment link (any other extension); a record with has_media and
\* no local path gets exactly the 'not downloaded yet' placeholder, and is
\* written whole; a record without media gets no media block.
C33_MediaBlock ==
    page.written
      => /\ Cardinality(BlockStarts(page.out))
              = (IF BlocksAllowed(page.msg) = {} THEN 0 ELSE 1)
         /\ \A i \in BlockStarts(page.out) :
               \E k \in BlocksAllowed(page.msg) : page.out[i] = BlockOpeners[k]
         /\ page.out[Len(page.out)] = "</div message>"

\* a record with an attachment that has not been downloaded was written with
\* the placeholder
C33_Witness ==
    /\ page.written
    /\ page.msg.has_media /\ page.msg.media_path = << >>
    /\ \E i \in 1..Len(page.out) : page.out[i] = "<div media-placeholder>"

\* the characters HTML gives a meaning to
SpecialChars == { "&", "<", ">", "\"", "'" }

\* the character a token of the text written stands for
unescape_token(t) ==
    IF t = "&amp;" THEN "&"
    ELSE IF t = "&lt;" THEN "<"
    ELSE IF t = "&gt;" THEN ">"
    ELSE IF t = "&quot;" THEN "\""
    ELSE IF t = "&#x27;" THEN "'"
    ELSE t

\* what a browser shows for the tokens between the template pieces
\* `open` and `close`
Shown(out, open, close) ==
    LET a == CHOOSE i \in 1..Len(out) : out[i] = open
        b == CHOOSE i \in 1..Len(out) : out[i] = close
    IN  [ i \in 1..(b - a - 1) |-> unescape_token(out[a + i]) ]

\* the display name and handle of the record as the chat gives them
DisplayOf(m) ==
    IF ~m.sender THEN << "U", "n", "k", "n", "o", "w", "n" >>
    ELSE IF m.sender_username = << >> THEN m.sender_name
    ELSE m.sender_name \o << " ", "(", "@" >> \o m.sender_username \o << ")" >>

\* C34 - HTML escaping: in the text written for a record no character that
\* HTML gives a meaning to stands unescaped outside the pieces of the
\* template, on every branch of the media block; the message text and the
\* sender display are in the text in escaped form, and so is the media path
\* where a block inserts it.
C34_Escaped ==
    page.written
      => /\ \A i \in 1..Len(page.out) : page.out[i] \notin SpecialChars
         /\ Shown(page.out, "<div message-text>", "</div message-text>")
              = page.msg.text
         /\ Shown(page.out, "<span sender>", "</span sender>")
              = DisplayOf(page.msg)
         /\ \A i \in BlockStarts(page.out) :
               page.out[i] # "<div media-placeholder>"
                 => \E n \in { Len(page.msg.media_path) } :
                       [ j \in 1..n |-> unescape_token(page.out[i + j]) ]
                          = page.msg.media_path

\* a record whose text, sender name and media path hold such characters was
\* written with an attachment link
C34_Witness ==
    /\ page.written
    /\ \E i \in 1..Len(page.msg.text) : page.msg.text[i] \in SpecialChars
    /\ \E i \in 1..Len(page.msg.sender_name) :
          page.msg.sender_name[i] \in SpecialChars
    /\ \E i \in 1..Len(page.msg.media_path) :
          page.msg.media_path[i] \in SpecialChars
    /\ \E i \in 1..Len(page.out) : page.out[i] = "<a href="
    /\ \E i \in 1..Len(page.out) : page.out[i] = "&lt;"

\* the records of the chat that the counters of the record p count: the
\* p.total_downloaded newest ones
CountedIds(p) ==
    { id \in SourceIds : id > source.lo + source.n - p.total_downloaded }

\* C35 - Inventory covers what is counted: whenever the progress file holds
\* a record, a kill of the process included, every record of the chat that
\* has an attachment and is counted in its total_downloaded has its
\* identifier in its messages_with_media (which may hold more identifiers).
C35_InventoryCovers ==
    IsRecord(progress_file)
      => \A p \in { Persisted }, inv \in { PersistedInventory } :
            /\ source.media \cap CountedIds(p) \subseteq Range(inv)
            /\ p.total_downloaded > 0
                 => { id \in source.media : id >= p.last_message_id }
                       \subseteq Range(inv)

\* the progress file counts a record with an attachment, which is in its
\* inventory, and its inventory is ahead of its counters: it holds a record
\* that is not counted
C35_Witness ==
    /\ IsRecord(progress_file)
    /\ \E id \in source.media :
          id \in CountedIds(Persisted) /\ id \in Range(PersistedInventory)
    /\ \E id \in Range(PersistedInventory) : id \notin CountedIds(Persisted)

\* C36 - Cap is never exceeded: in a run with max_messages configured that
\* started with total_downloaded below the cap, every batch request asks for
\* at least one record and for no more than batch_size and than what is
\* left to the cap, a request delivers no more records than it asks for,
\* and total_downloaded is never above max_messages, also after a
\* rate-limit signal has cut a batch.
C36_CapRespected ==
    [][ (cfg.max_messages # 0 /\ loaded'.total_downloaded < cfg.max_messages
         /\ pc' # "idle")
          => /\ total_downloaded' <= cfg.max_messages
             /\ (pc = "loop_top" /\ pc' = "fetch")
                  => /\ current_batch_size' >= 1
                     /\ current_batch_size' <= cfg.batch_size
                     /\ current_batch_size' <= cfg.max_messages - total_downloaded
                     /\ \/ current_batch_size' = cfg.batch_size
                        \/ current_batch_size' = cfg.max_messages - total_downloaded
             /\ pc' = "fetch" => batch_count' <= current_batch_size' ]_vars

\* a rate-limit signal has cut a batch, the retry asked for less than
\* batch_size, and the run has reached the cap exactly
C36_Witness ==
    /\ cfg.max_messages # 0
    /\ floods >= 1
    /\ pc = "fetch"
    /\ current_batch_size < cfg.batch_size
    /\ batch_count = current_batch_size
    /\ total_downloaded = cfg.max_messages

\* how an uninterrupted run leaves the batch loop, and the first record a
\* fresh job commits
LoopExitAndFirstRecord ==
    /\ (InLoop /\ ~InLoop') => exit_reason' \in {"exhausted", "cap"}
    /\ (runs' = runs /\ total_downloaded' > total_downloaded /\ offset_id = 0)
          => offset_id' > 0

\* C37 - Phase 1 terminates, as the claim states it: the batch loop of a run
\* that is not interrupted eventually stops, on an empty batch or at the
\* cap, and the request offset is smaller after every committed record.
C37_TerminatesDecreasing ==
    /\ InLoop ~> ~InLoop
    /\ [][ /\ LoopExitAndFirstRecord
           /\ (runs' = runs /\ total_downloaded' > total_downloaded)
                 => offset_id' < offset_id ]_vars

\* C37 (amended) - the batch loop of a run that is not interrupted
\* eventually stops, on an empty batch or at the cap; the request offset is
\* smaller after every committed record once it is non-zero (0 is the
\* offset of "from the newest record", which the first record a fresh job
\* commits replaces by its identifier).
C37_Phase1Terminates ==
    /\ InLoop ~> ~InLoop
    /\ [][ /\ LoopExitAndFirstRecord
           /\ (runs' = runs /\ total_downloaded' > total_downloaded
               /\ offset_id # 0)
                 => offset_id' < offset_id ]_vars

\* a run that a rate-limit signal has delayed has fetched the whole chat
\* and has left the loop on an empty batch
C37_Witness ==
    /\ exit_reason = "exhausted"
    /\ pc = "finally"
    /\ floods >= 1
    /\ total_downloaded = source.n
    /\ offset_id = source.lo + 1

C28_ResolveAbortsEarly ==
    [][ exit_reason' = "unresolved"
          => /\ pc' = "idle"
             /\ progress_file' = progress_file
             /\ csv_data' = csv_data /\ json_data' = json_data
             /\ html_data' = html_data
             /\ media_dir' = media_dir
             /\ offset_id' = offset_id
             /\ download_calls' = download_calls ]_vars

\* an invocation failed to resolve the channel of a job that has a progress
\* file, output files with records and a stored attachment
C28_Witness ==
    /\ exit_reason = "unresolved"
    /\ IsRecord(progress_file)
    /\ Persisted.total_downloaded > 0
    /\ Records(json_data) # << >>
    /\ media_dir # {} /\ media_dir # StrayFiles

\* C29 - First-generation downloader resume: an invocation that follows an
\* interrupted one starts from the last_message_id and the total_downloaded
\* the interrupted invocation saved, that is, from the progress file that
\* invocation wrote.
C29_V1Resumes ==
    [][ (v1.pc = "idle" /\ v1.exit_reason = "interrupt" /\ v1'.pc = "loop_top")
          => LET saved == v1_load_progress(v1_file(v1.progress_files, v1.stamp))
             IN  /\ v1'.loaded = saved
                 /\ v1'.offset_id = saved.last_message_id
                 /\ v1'.total_downloaded = saved.total_downloaded ]_vars

\* the records of this run that the sink holds cover what the progress file
\* says of this run: its count, and its last_message_id when it counts any
CoveredBy(recs, p) ==
    /\ p.total_downloaded - loaded.total_downloaded <= Len(recs)
    /\ p.total_downloaded > loaded.total_downloaded
         => \E i \in 1..Len(recs) : recs[i] = p.last_message_id

\* C30 - Per-record commit order: a record is written and flushed to every
\* open sink before it is counted and before a save can cover it, so at
\* every moment, a kill of the process included, a progress file that holds
\* a record counts no record of the current run that an opened sink lacks.
C30_WrittenBeforeSaved ==
    IsRecord(progress_file)
        => \A p \in { Persisted } :
              /\ csv_file  \in {"open", "closed"} => CoveredBy(CsvIds(csv_data), p)
              /\ json_file \in {"open", "closed"} => CoveredBy(Records(json_data), p)
              /\ html_file \in {"open", "closed"} => CoveredBy(Records(html_data), p)

\* the process was killed after the record reached the CSV file and before
\* it reached the JSON file, in a run that has saved records of its own
C30_Witness ==
    /\ exit_reason = "killed"
    /\ csv_file = "open" /\ json_file = "open"
    /\ Len(CsvIds(csv_data)) = Len(Records(json_data)) + 1
    /\ IsRecord(progress_file)
    /\ Persisted.total_downloaded > loaded.total_downloaded

====
